---- MODULE Spec2Model ----
(***************************************************************************)
(* Ledger core of BILLIT: the sql.js store (parties, transactions, one     *)
(* connection with BEGIN/COMMIT/ROLLBACK), the duplicate detector, the     *)
(* balance engine and the apply entry points (processBulkEntries behind    *)
(* PartyDetails.handleBulkEntry, BulkEntry.handleSubmit, addTransaction,   *)
(* deleteTransaction).  Every `await` of the source is a suspension point: *)
(* a call is cut into one action per stretch of code between two awaits,   *)
(* and calls of different tasks interleave at those points.                *)
(*                                                                         *)
(* Time is counted in days (CURRENT_TIMESTAMP = now).  Amounts are         *)
(* integers; the columns updated_at, has_gst and description are left out. *)
(* SQL NULL is the string NULL for text columns and the empty sequence for *)
(* the numeric column running_balance.  Rows of `transactions` are kept in *)
(* rowid order; rows that tie on an ORDER BY key come out in rowid order.  *)
(*                                                                         *)
(* Seven specifications.  Spec runs every entry point, one call at a time. *)
(* SpecConc runs the two apply paths of the pages with two calls in        *)
(* flight, interleaved at the awaits.  SpecNames runs the BulkEntry page    *)
(* with batches that spell a party name in two ways.  SpecParse runs the   *)
(* parser of the BulkEntry page on texts given character by character; in  *)
(* the others the batches are given as the parser hands them on.  SpecBulk *)
(* runs the bulk import and bulk delete of PartyDetails on the store a     *)
(* credit sale left,                                                       *)
(* with batches whose entries share a date.  SpecLive runs the four       *)
(* operations that open a store transaction, with a suspended call being   *)
(* resumed in the end.  SpecLedgers runs the operations of operations.ts   *)
(* on a store with two parties.  A call starts only while the              *)
(* ids it may draw for rows fit under MaxId, and the clock starts with the *)
(* first row.                                                              *)
(***************************************************************************)
EXTENDS Integers, Sequences, FiniteSets, TLC

VARIABLES
  parties,        \* table parties: id -> [name, current_balance]
  transactions,   \* table transactions, a sequence of rows in rowid order
  inTransaction,  \* the connection has an open BEGIN TRANSACTION
  snapshot,       \* the tables as they were at BEGIN (what ROLLBACK restores)
  nextId,         \* generateId(): ids handed out so far
  now,            \* the clock, in days
  isSaving,       \* PartyDetails state flag
  isProcessing,   \* BulkEntry state flag
  parsedEntries,  \* BulkEntry state: the parsed batch of the current render
  duplicates,     \* BulkEntry state: duplicate warnings shown
  task,           \* the running calls: task id -> call frame
  last            \* the step that has just been taken (history)

vars == <<parties, transactions, inTransaction, snapshot, nextId, now,
          isSaving, isProcessing, parsedEntries, duplicates, task, last>>

----------------------------------------------------------------------------
(* Bounds *)
MaxTime == 2
MaxId == 2

(* created_at >= datetime("now", "-1 day") *)
Window == 1

NULL == "NULL"
None == <<>>
Some(v) == <<v>>

(* the frames a page has for running calls *)
OneFrame == {1}
TwoFrames == {1, 2}

----------------------------------------------------------------------------
(* Parsed entries, as the parser hands them to the apply step.             *)
Entry(ty, d, a, pn, pm, bn) ==
  [type |-> ty, id |-> NULL, date |-> d, amount |-> a, party_name |-> pn,
   payment_mode |-> pm, billNumber |-> bn]

BillMaa      == Entry("bill",    1, 2, "Maa", NULL, NULL)
BillMaaB1    == Entry("bill",    1, 2, "Maa", NULL, "b1")
BillLower    == Entry("bill",    2, 1, "maa", NULL, NULL)
PaymentMaa   == Entry("payment", 1, 2, "Maa", NULL, NULL)
PaymentLater == Entry("payment", 2, 1, "Maa", NULL, NULL)
CreditSale   == Entry("sale",    1, 2, "Maa", "credit", NULL)
BillZero     == Entry("bill",    1, 0, "Maa", NULL, NULL)

EntryPool ==
  { BillMaa, BillMaaB1, PaymentMaa, PaymentLater, CreditSale, BillZero }

(* the batches an operator types into the BulkEntry page: every single     *)
(* entry, a batch typed out of date order, and a batch with one entry the  *)
(* validator rejects                                                       *)
Batches ==
  { <<e>> : e \in EntryPool } \cup
  { <<PaymentLater, BillMaa>>, <<BillMaa, BillZero>> }

(* batches that name one party in two spellings *)
NameBatches == { <<BillMaa>>, <<BillLower>>, <<BillLower, BillMaa>> }

(* the inputs handed to processEntries through the imperative handle *)
Inputs == { <<PaymentMaa>>, <<PaymentLater, BillMaa>>, <<BillMaa, BillZero>> }

(* the batches pasted into the BulkEntryModal of a party *)
BulkBatches ==
  { <<BillMaa>>, <<BillMaaB1>>, <<PaymentMaa>>, <<PaymentLater, BillMaa>> }

(* the entries handed to addTransaction *)
DirectEntries == { BillMaa, PaymentMaa, CreditSale }

(* generateId(): the n-th id handed out *)
generateId(n) == ToString(n + 1)

----------------------------------------------------------------------------
(* The store.  A db value is the pair of tables; statements are operators  *)
(* from db to db.                                                          *)
Db(p, t) == [p |-> p, t |-> t]

Row(id, d, ty, a, pm, cat, bn, pid, ts) ==
  [id |-> id, date |-> d, type |-> ty, amount |-> a, payment_mode |-> pm,
   expense_category |-> cat, bill_number |-> bn, party_id |-> pid,
   running_balance |-> None, created_at |-> ts]

InsertTransaction(db, row) == Db(db.p, Append(db.t, row))

InsertParty(db, id, name, ts) ==
  Db([x \in DOMAIN db.p \cup {id} |->
        IF x = id THEN [name |-> name, current_balance |-> 0]
        ELSE db.p[x]],
     db.t)

(* UPDATE parties SET current_balance = current_balance + delta WHERE id = pid *)
AdjustBalance(db, pid, delta, ts) ==
  IF pid \in DOMAIN db.p
  THEN Db([db.p EXCEPT ![pid] = [@ EXCEPT !.current_balance = @ + delta]], db.t)
  ELSE db

(* UPDATE parties SET current_balance = v WHERE id = pid *)
SetBalance(db, pid, v, ts) ==
  IF pid \in DOMAIN db.p
  THEN Db([db.p EXCEPT ![pid] = [@ EXCEPT !.current_balance = v]], db.t)
  ELSE db

RECURSIVE RemoveId(_, _)
RemoveId(t, id) ==
  IF t = <<>> THEN <<>>
  ELSE IF Head(t).id = id THEN RemoveId(Tail(t), id)
  ELSE <<Head(t)>> \o RemoveId(Tail(t), id)

(* DELETE FROM transactions WHERE id = ? *)
DeleteTransactionRow(db, id) == Db(db.p, RemoveId(db.t, id))

(* partyId = generateId() for a party that is created.  generateId draws   *)
(* a random string; the id of a party is only ever compared with ids of    *)
(* parties (parties.id, transactions.party_id), so the new id is named by  *)
(* the number of parties stored and takes nothing from nextId.             *)
NewPartyId(db) == "p" \o ToString(Cardinality(DOMAIN db.p) + 1)

(* SELECT id FROM parties WHERE name = ?  (first row, or NULL) *)
FindPartyByName(db, name) ==
  LET hits == { x \in DOMAIN db.p : db.p[x].name = name }
  IN  IF hits = {} THEN NULL ELSE CHOOSE x \in hits : TRUE

IsBill(r) == r.type = "bill"
IsPayment(r) == r.type = "expense" /\ r.expense_category = "party_payment"

(* One parameter of the duplicate query names the kind; a payment is never *)
(* stored under type payment but as an expense of category party_payment.  *)
KindOf(r) == IF IsPayment(r) THEN "payment" ELSE r.type

----------------------------------------------------------------------------
(* Balance engine: recalculatePartyBalance                                 *)

(* no ORDER BY: the rows come in rowid order *)
OrderByRowid(a, b) == FALSE

(* ORDER BY date ASC, created_at ASC *)
OrderBefore(a, b) ==
  \/ a.date < b.date
  \/ a.date = b.date /\ a.created_at < b.created_at

RECURSIVE InsertSorted(_, _)
InsertSorted(sorted, r) ==
  IF sorted = <<>> THEN <<r>>
  ELSE IF OrderBefore(r, Head(sorted)) THEN <<r>> \o sorted
  ELSE <<Head(sorted)>> \o InsertSorted(Tail(sorted), r)

RECURSIVE OrderRows(_)
OrderRows(rows) ==
  IF rows = <<>> THEN <<>>
  ELSE CHOOSE res \in { InsertSorted(sorted, rows[Len(rows)]) :
                           sorted \in {OrderRows(SubSeq(rows, 1, Len(rows) - 1))} } : TRUE

(* a SELECT without the party_id = ? condition *)
SelectLedgerAnyParty(t, pid) ==
  SelectSeq(t, LAMBDA r : IsBill(r) \/ IsPayment(r))

(* WHERE party_id = ? AND (type = 'bill' OR (type = 'expense' AND          *)
(* expense_category = 'party_payment'))                                    *)
SelectLedger(t, pid) ==
  SelectSeq(t, LAMBDA r : r.party_id = pid /\ (IsBill(r) \/ IsPayment(r)))

(* one step of the fold: the accumulator after row r *)
Accumulate(acc, r) ==
  IF IsBill(r) THEN acc + r.amount
  ELSE IF IsPayment(r) THEN acc - r.amount
  ELSE acc

(* UPDATE transactions SET running_balance = ?, updated_at = now WHERE id = ? *)
SetRunningBalance(t, id, v, ts) ==
  [i \in DOMAIN t |->
     IF t[i].id = id
     THEN [t[i] EXCEPT !.running_balance = Some(v)]
     ELSE t[i]]

RECURSIVE FoldLedger(_, _, _, _)
FoldLedger(rows, acc, t, ts) ==
  IF rows = <<>> THEN [t |-> t, acc |-> acc]
  ELSE CHOOSE res \in UNION
         { { FoldLedger(Tail(rows), a, u, ts) :
               u \in {SetRunningBalance(t, Head(rows).id, a, ts)} } :
             a \in {Accumulate(acc, Head(rows))} } : TRUE

(* a fold that starts from the stored balance *)
InitialBalanceStored(db, pid) == db.p[pid].current_balance

(* the accumulator the fold starts from *)
InitialBalance(db, pid) == 0

recalculatePartyBalance(db, pid, ts) ==
  CHOOSE res \in UNION
    { IF rows = <<>> THEN {[db |-> db, ret |-> 0]}
      ELSE { [db |-> SetBalance(Db(db.p, f.t), pid, f.acc, ts), ret |-> f.acc] :
               f \in {FoldLedger(rows, InitialBalance(db, pid), db.t, ts)} } :
        rows \in {OrderRows(SelectLedger(db.t, pid))} } : TRUE

----------------------------------------------------------------------------
(* Duplicate detector: checkDuplicateTransaction                           *)

(* (type = 'expense' AND expense_category = 'party_payment') OR (type = ?) *)
KindClause(r, type) == IsPayment(r) \/ r.type = type

(* the bill_number condition appended for a bill *)
BillNumberClause(r, type, billNumber) ==
  IF type = "bill" /\ billNumber # NULL
  THEN r.bill_number = billNumber \/ r.bill_number = NULL
  ELSE IF type = "bill" THEN r.bill_number = NULL
  ELSE TRUE

(* a query without the created_at condition *)
WindowClauseNone(r, ts) == TRUE

(* created_at >= datetime("now", "-1 day") *)
WindowClause(r, ts) == r.created_at >= ts - Window

checkDuplicateTransaction(t, partyId, date, amount, type, billNumber, ts) ==
  IF partyId = NULL THEN FALSE
  ELSE \E i \in DOMAIN t :
          /\ t[i].party_id = partyId
          /\ t[i].date = date
          /\ t[i].amount = amount
          /\ KindClause(t[i], type)
          /\ BillNumberClause(t[i], type, billNumber)
          /\ WindowClause(t[i], ts)

----------------------------------------------------------------------------
(* Validator (utils/validator): the structural checks of a batch.  The     *)
(* result is the list of the entries that fail a check.                    *)
EntryValid(e) ==
  /\ e.amount > 0
  /\ (e.type \in {"bill", "payment"} => e.party_name # NULL)
  /\ e.type \in {"sale", "expense", "bill", "payment"}
  /\ e.payment_mode \in {NULL, "cash", "digital", "credit"}

validateEntries(entries) == SelectSeq(entries, LAMBDA e : ~EntryValid(e))

----------------------------------------------------------------------------
(* Unit of work on the one connection                                      *)

NoDb == Db(<<>>, <<>>)

(* a ROLLBACK that restores nothing *)
RollbackKeeps(db, snap) == db

(* ROLLBACK: the tables go back to what they were at BEGIN *)
Rollback(db, snap) == snap

----------------------------------------------------------------------------
(* Call frames and the history record                                      *)

NoEntry == Entry(NULL, 0, 0, NULL, NULL, NULL)

Idle ==
  [op |-> "idle", pc |-> "idle", party |-> NULL, batch |-> <<>>, input |-> <<>>,
   i |-> 0, isDup |-> FALSE, partyId |-> NULL, found |-> <<>>, ids |-> <<>>,
   inserted |-> {}, created |-> {}, touched |-> {}, txid |-> NULL, pre |-> NoDb,
   forced |-> <<>>, skipped |-> {}, selected |-> {}]

Frame(op, pc, party, batch) ==
  [Idle EXCEPT !.op = op, !.pc = pc, !.party = party, !.batch = batch, !.input = batch]

Tasks == DOMAIN task

(* The pages are routes of one router (App.tsx): PartyDetails is mounted   *)
(* only when BulkEntry is not, and a page that is mounted again starts     *)
(* from its initial state.                                                 *)
BulkEntryUnmounted == parsedEntries = <<>> /\ duplicates = <<>>

(* a call takes the first free frame *)
FreeSlot(t) ==
  /\ task[t].pc = "idle"
  /\ \A u \in Tasks : task[u].pc = "idle" => t <= u

AllIdle == \A t \in Tasks : task[t].pc = "idle"

(* a call starts only while the row ids it may draw are within the bound *)
IdsLeft(n) == nextId + n <= MaxId

(* the events that close a call keep what the call did; the events of one  *)
(* entry keep the entry                                                    *)
Closing(ev) == ev \in {"rollback", "commit", "validation_failed"}
OfEntry(ev) == ev \in {"dupcheck", "insert", "skip", "lookup", "rollback"}

Event(ev, f) ==
  [ev |-> ev, op |-> f.op, party |-> f.party,
   batch |-> IF Closing(ev) THEN f.batch ELSE <<>>,
   entry |-> IF OfEntry(ev) /\ f.i \in DOMAIN f.batch THEN f.batch[f.i] ELSE NoEntry,
   isDup |-> OfEntry(ev) /\ f.isDup, fault |-> FALSE, ret |-> 0,
   pre |-> IF Closing(ev) THEN f.pre ELSE NoDb,
   inserted |-> IF Closing(ev) THEN f.inserted ELSE {},
   created |-> IF Closing(ev) THEN f.created ELSE {},
   touched |-> IF Closing(ev) THEN f.touched ELSE {},
   txid |-> IF Closing(ev) THEN f.txid ELSE NULL,
   forced |-> IF ev \in {"duplicates", "commit"} THEN f.forced ELSE <<>>,
   skipped |-> IF Closing(ev) THEN f.skipped ELSE {},
   selected |-> IF Closing(ev) THEN f.selected ELSE {},
   text |-> <<>>, date |-> <<>>]

CurrentDb == Db(parties, transactions)

BoolFaults == {FALSE, TRUE}
WriteFaults == {"none", "insert", "update"}

(* [...entries].sort by date: a stable sort *)
RECURSIVE InsertByDate(_, _)
InsertByDate(sorted, e) ==
  IF sorted = <<>> THEN <<e>>
  ELSE IF e.date < Head(sorted).date THEN <<e>> \o sorted
  ELSE <<Head(sorted)>> \o InsertByDate(Tail(sorted), e)

RECURSIVE SortByDate(_)
SortByDate(entries) ==
  IF entries = <<>> THEN <<>>
  ELSE InsertByDate(SortByDate(SubSeq(entries, 1, Len(entries) - 1)), entries[Len(entries)])

----------------------------------------------------------------------------
InitStore ==
  /\ parties = <<>>
  /\ transactions = <<>>
  /\ inTransaction = FALSE
  /\ snapshot = NoDb
  /\ nextId = 0
  /\ now = 0
  /\ isSaving = FALSE
  /\ isProcessing = FALSE
  /\ parsedEntries = <<>>
  /\ duplicates = <<>>
  /\ last = Event("init", Idle)

Init == InitStore /\ task = [t \in OneFrame |-> Idle]

(* the operator leaves the BulkEntry page: its state is dropped *)
LeaveBulkEntry ==
  /\ AllIdle
  /\ ~BulkEntryUnmounted
  /\ parsedEntries' = <<>>
  /\ duplicates' = <<>>
  /\ last' = Event("navigate", Idle)
  /\ UNCHANGED <<parties, transactions, inTransaction, snapshot, nextId, now,
                 isSaving, isProcessing, task>>

(* the clock advances; it is read only against the created_at of a stored  *)
(* row, so it starts with the first row                                    *)
Tick ==
  /\ AllIdle
  /\ transactions # <<>>
  /\ now < MaxTime
  /\ now' = now + 1
  /\ last' = Event("tick", Idle)
  /\ UNCHANGED <<parties, transactions, inTransaction, snapshot, nextId,
                 isSaving, isProcessing, parsedEntries, duplicates, task>>

----------------------------------------------------------------------------
(* processBulkEntries, called by PartyDetails.handleBulkEntry              *)

SetDb(db) == parties' = db.p /\ transactions' = db.t

(* the row and the balance change processBulkEntries posts for an entry *)
BulkRow(e, id, partyId, ts) ==
  IF e.type = "payment"
  THEN Row(id, e.date, "expense", e.amount, NULL, "party_payment", NULL, partyId, ts)
  ELSE Row(id, e.date, "bill", e.amount, NULL, NULL, e.billNumber, partyId, ts)

BulkDelta(e) == IF e.type = "payment" THEN 0 - e.amount ELSE e.amount

(* a loop that posts flagged entries too *)
PostsFlagged(isDup, e) == e.type \in {"payment", "bill"}

(* if (isDuplicate) continue; then only payments and bills are posted *)
Posts(isDup, e) == ~isDup /\ e.type \in {"payment", "bill"}

(* the entries of a batch the duplicate check lets pass as the store is *)
BulkNeeds(pid, batch) ==
  Cardinality({ k \in DOMAIN batch :
    ~checkDuplicateTransaction(transactions, pid, batch[k].date, batch[k].amount,
                               batch[k].type, batch[k].billNumber, now) })

(* handleBulkEntry: setIsSaving(true), then processBulkEntries up to its   *)
(* first await                                                             *)
HandleBulkEntry(t, pid, batch) ==
  /\ FreeSlot(t)
  /\ BulkEntryUnmounted
  /\ pid \in DOMAIN parties
  /\ IdsLeft(BulkNeeds(pid, batch))
  /\ isSaving' = TRUE
  /\ task' = [task EXCEPT ![t] = Frame("processBulkEntries", "pb_begin", pid, batch)]
  /\ last' = Event("call", task'[t])
  /\ UNCHANGED <<parties, transactions, inTransaction, snapshot, nextId, now,
                 isProcessing, parsedEntries, duplicates>>

(* BEGIN TRANSACTION, the sort, and the first call of the duplicate check  *)
(* up to its await.  BEGIN inside an open transaction throws: the error    *)
(* passes the outer catch and ends handleBulkEntry (finally).              *)
PB_Begin(t) ==
  /\ task[t].pc = "pb_begin"
  /\ IF inTransaction
     THEN /\ isSaving' = FALSE
          /\ task' = [task EXCEPT ![t] = Idle]
          /\ last' = Event("begin_failed", task[t])
          /\ UNCHANGED <<parties, transactions, inTransaction, snapshot>>
     ELSE /\ inTransaction' = TRUE
          /\ snapshot' = CurrentDb
          /\ task' = [task EXCEPT ![t] = [@ EXCEPT !.pc = "pb_check", !.i = 1,
                                             !.batch = SortByDate(@),
                                             !.pre = CurrentDb]]
          /\ last' = Event("begin", task'[t])
          /\ UNCHANGED <<parties, transactions, isSaving>>
  /\ UNCHANGED <<nextId, now, isProcessing, parsedEntries, duplicates>>

(* the SELECT of checkDuplicateTransaction; a failing exec is caught and   *)
(* answered with false (taken while the ids of the rest of the batch are   *)
(* within the bound)                                                       *)
PB_Check(t) ==
  /\ task[t].pc = "pb_check"
  /\ \E fault \in BoolFaults :
       LET f == task[t]
           e == f.batch[f.i]
           dup == IF fault THEN FALSE
                  ELSE checkDuplicateTransaction(transactions, f.party, e.date,
                                                 e.amount, e.type, e.billNumber, now)
       IN  /\ fault => IdsLeft(Len(f.batch) - f.i + 1)
           /\ task' = [task EXCEPT ![t] = [@ EXCEPT !.pc = "pb_insert", !.isDup = dup]]
           /\ last' = [Event("dupcheck", task'[t]) EXCEPT !.fault = fault]
  /\ UNCHANGED <<parties, transactions, inTransaction, snapshot, nextId, now,
                 isSaving, isProcessing, parsedEntries, duplicates>>

(* the rest of one loop iteration: skip or INSERT + UPDATE, then on to the *)
(* next duplicate check or to the recalculation.  A failing statement goes *)
(* to the inner catch: ROLLBACK, rethrow, and handleBulkEntry ends.        *)
PB_Insert(t) ==
  /\ task[t].pc = "pb_insert"
  /\ LET f == task[t]
         e == f.batch[f.i]
         posts == Posts(f.isDup, e)
         id == generateId(nextId)
         db1 == InsertTransaction(CurrentDb, BulkRow(e, id, f.party, now))
         db2 == AdjustBalance(db1, f.party, BulkDelta(e), now)
         nextpc == IF f.i < Len(f.batch) THEN "pb_check" ELSE "pb_recalc"
     IN  \E fault \in WriteFaults :
           /\ (~posts => fault = "none")
           /\ nextId' = IF posts THEN nextId + 1 ELSE nextId
           /\ IF fault = "none"
              THEN /\ SetDb(IF posts THEN db2 ELSE CurrentDb)
                   /\ task' = [task EXCEPT ![t] =
                        [@ EXCEPT !.pc = nextpc,
                                  !.i = IF f.i < Len(f.batch) THEN f.i + 1 ELSE f.i,
                                  !.inserted = IF posts THEN @ \cup {id} ELSE @,
                                  !.skipped = IF f.isDup THEN @ \cup {f.i} ELSE @,
                                  !.touched = IF posts THEN @ \cup {f.party} ELSE @]]
                   /\ last' = [Event(IF posts THEN "insert" ELSE "skip", task[t])
                                 EXCEPT !.pre = CurrentDb]
                   /\ UNCHANGED <<inTransaction, snapshot, isSaving>>
              ELSE /\ SetDb(Rollback(IF fault = "update" THEN db1 ELSE CurrentDb, snapshot))
                   /\ inTransaction' = FALSE
                   /\ snapshot' = NoDb
                   /\ isSaving' = FALSE
                   /\ task' = [task EXCEPT ![t] = Idle]
                   /\ last' = [Event("rollback", task[t]) EXCEPT
                                 !.inserted = IF fault = "update" THEN @ \cup {id} ELSE @]
  /\ UNCHANGED <<now, isProcessing, parsedEntries, duplicates>>

(* recalculatePartyBalance(partyId) after the loop *)
PB_Recalc(t) ==
  /\ task[t].pc = "pb_recalc"
  /\ \E fault \in BoolFaults :
       LET r == recalculatePartyBalance(CurrentDb, task[t].party, now)
       IN  IF ~fault
           THEN /\ SetDb(r.db)
                /\ task' = [task EXCEPT ![t] = [@ EXCEPT !.pc = "pb_commit"]]
                /\ last' = [Event("recalc", task[t]) EXCEPT !.ret = r.ret]
                /\ UNCHANGED <<inTransaction, snapshot, isSaving>>
           ELSE /\ SetDb(Rollback(CurrentDb, snapshot))
                /\ inTransaction' = FALSE
                /\ snapshot' = NoDb
                /\ isSaving' = FALSE
                /\ task' = [task EXCEPT ![t] = Idle]
                /\ last' = Event("rollback", task[t])
  /\ UNCHANGED <<nextId, now, isProcessing, parsedEntries, duplicates>>

(* COMMIT and db.save(); handleBulkEntry goes on to reload the page *)
PB_Commit(t) ==
  /\ task[t].pc = "pb_commit"
  /\ inTransaction' = FALSE
  /\ snapshot' = NoDb
  /\ task' = [task EXCEPT ![t] = [@ EXCEPT !.pc = "finish"]]
  /\ last' = Event("commit", task[t])
  /\ UNCHANGED <<parties, transactions, nextId, now, isSaving, isProcessing,
                 parsedEntries, duplicates>>

(* the finally block of a PartyDetails handler: setIsSaving(false) *)
Finish(t) ==
  /\ task[t].pc = "finish"
  /\ isSaving' = FALSE
  /\ task' = [task EXCEPT ![t] = Idle]
  /\ last' = Event("finish", task[t])
  /\ UNCHANGED <<parties, transactions, inTransaction, snapshot, nextId, now,
                 isProcessing, parsedEntries, duplicates>>

----------------------------------------------------------------------------
(* BulkEntry page: handleEntriesChange, handleSubmit, processEntries       *)

(* the parser gives every entry a fresh id *)
WithIds(batch, n) ==
  [i \in DOMAIN batch |-> [batch[i] EXCEPT !.id = generateId(n + i - 1)]]

(* handleEntriesChange: the text is parsed again, warnings are cleared.     *)
(* No step of a running call reads parsedEntries, so an edit made while a  *)
(* call runs is taken when the call has ended.                             *)
HandleEntriesChange(batch) ==
  /\ AllIdle
  /\ IdsLeft(Len(batch))
  /\ parsedEntries' = WithIds(batch, nextId)
  /\ nextId' = nextId + Len(batch)
  /\ duplicates' = <<>>
  /\ last' = [Event("entries_change", Idle) EXCEPT !.batch = parsedEntries']
  /\ UNCHANGED <<parties, transactions, inTransaction, snapshot, now,
                 isSaving, isProcessing, task>>

(* the Process Anyway button of the duplicate warning box:                 *)
(* onClick={() => setDuplicates([])}.  The history keeps the warnings that *)
(* were dismissed; a submission that follows at once carries them.  No     *)
(* running call reads `duplicates`, so a click made while a call runs is   *)
(* taken when the call has ended.                                          *)
ProcessAnyway ==
  /\ AllIdle
  /\ Len(duplicates) > 0
  /\ duplicates' = <<>>
  /\ last' = [Event("process_anyway", Idle) EXCEPT !.batch = duplicates]
  /\ UNCHANGED <<parties, transactions, inTransaction, snapshot, nextId, now,
                 isSaving, isProcessing, parsedEntries, task>>

(* a gate that lets every batch pass *)
SubmitBlockedNever(validEntries) == FALSE

(* the validation gate of handleSubmit *)
SubmitBlocked(validEntries) == Len(validateEntries(validEntries)) > 0

(* checkForDuplicates awaits only for an entry that has a party_name *)
NextWithParty(batch, i) ==
  LET later == { j \in i..Len(batch) : batch[j].party_name # NULL }
  IN  IF later = {} THEN Len(batch) + 1
      ELSE CHOOSE j \in later : \A k \in later : j <= k

(* handleSubmit from its first line to its first await.  entries is the    *)
(* parsedEntries of the closure, shown the state the next render will see. *)
SubmitBody(t, entries, input, shown) ==
  /\ FreeSlot(t)
  /\ parsedEntries' = shown
  /\ IF Len(entries) = 0
     THEN /\ last' = [Event("no_entries", Idle) EXCEPT !.op = "handleSubmit"]
          /\ UNCHANGED <<isProcessing, task>>
     ELSE IF SubmitBlocked(entries)
     THEN /\ last' = [Event("validation_failed", Idle) EXCEPT
                        !.op = "handleSubmit", !.batch = entries,
                        !.pre = CurrentDb]
          /\ UNCHANGED <<isProcessing, task>>
     ELSE /\ isProcessing' = TRUE
          /\ task' = [task EXCEPT ![t] =
               [Frame("handleSubmit",
                      IF NextWithParty(entries, 1) <= Len(entries)
                      THEN "hs_lookup" ELSE "hs_begin", NULL, entries)
                  EXCEPT !.i = NextWithParty(entries, 1), !.input = input,
                         !.forced = IF last.ev = "process_anyway"
                                    THEN last.batch ELSE <<>>]]
          /\ last' = Event("call", task'[t])
  /\ UNCHANGED <<parties, transactions, inTransaction, snapshot, isSaving, duplicates>>

(* the submit button of the preview, which is given isProcessing *)
HandleSubmit(t) ==
  /\ ~isProcessing
  /\ SubmitBody(t, parsedEntries, parsedEntries, parsedEntries)
  /\ UNCHANGED <<nextId, now>>

(* processEntries of the imperative handle: validates the new input, then  *)
(* calls handleSubmit, whose closure still holds the previous parsedEntries *)
ProcessEntries(t, input) ==
  /\ FreeSlot(t)
  /\ IdsLeft(Len(input))
  /\ nextId' = nextId + Len(input)
  /\ UNCHANGED now
  /\ LET parsed == WithIds(input, nextId)
     IN  IF Len(validateEntries(parsed)) > 0
         THEN /\ parsedEntries' = parsed
              /\ last' = [Event("validation_failed", Idle) EXCEPT
                            !.op = "processEntries", !.batch = parsed,
                            !.pre = CurrentDb]
              /\ UNCHANGED <<parties, transactions, inTransaction, snapshot,
                             isSaving, isProcessing, duplicates, task>>
         ELSE SubmitBody(t, parsedEntries, parsed, parsed)

(* checkForDuplicates: SELECT id FROM parties WHERE name = ? for entry i.  *)
(* Without a party the loop runs on to the next entry that has a name; at  *)
(* the end of the loop warnings halt the submission.                       *)
AfterDuplicateLoop(t, f) ==
  IF Len(f.found) > 0
  THEN /\ duplicates' = f.found
       /\ isProcessing' = FALSE
       /\ task' = [task EXCEPT ![t] = Idle]
       /\ last' = Event("duplicates", f)
  ELSE /\ task' = [task EXCEPT ![t] = [f EXCEPT !.pc = "hs_begin", !.i = 1]]
       /\ last' = Event("checked", f)
       /\ UNCHANGED <<duplicates, isProcessing>>

HS_Lookup(t) ==
  /\ task[t].pc = "hs_lookup"
  /\ LET f == task[t]
         e == f.batch[f.i]
         pid == FindPartyByName(CurrentDb, e.party_name)
         nxt == NextWithParty(f.batch, f.i + 1)
     IN  IF pid # NULL
         THEN /\ task' = [task EXCEPT ![t] = [@ EXCEPT !.pc = "hs_query", !.partyId = pid]]
              /\ last' = Event("lookup", f)
              /\ UNCHANGED <<duplicates, isProcessing>>
         ELSE IF nxt <= Len(f.batch)
         THEN /\ task' = [task EXCEPT ![t] = [@ EXCEPT !.i = nxt]]
              /\ last' = Event("lookup", f)
              /\ UNCHANGED <<duplicates, isProcessing>>
         ELSE AfterDuplicateLoop(t, f)
  /\ UNCHANGED <<parties, transactions, inTransaction, snapshot, nextId, now,
                 isSaving, parsedEntries>>

(* checkForDuplicates: the SELECT of checkDuplicateTransaction for entry i *)
HS_Query(t) ==
  /\ task[t].pc = "hs_query"
  /\ \E fault \in BoolFaults :
       LET f == task[t]
           e == f.batch[f.i]
           dup == IF fault THEN FALSE
                  ELSE checkDuplicateTransaction(transactions, f.partyId, e.date,
                                                 e.amount, e.type, e.billNumber, now)
       IN  /\ task' = [task EXCEPT ![t] = [@ EXCEPT !.pc = "hs_after", !.isDup = dup]]
           /\ last' = [Event("dupcheck", task'[t]) EXCEPT !.fault = fault, !.party = f.partyId]
  /\ UNCHANGED <<parties, transactions, inTransaction, snapshot, nextId, now,
                 isSaving, isProcessing, parsedEntries, duplicates>>

(* checkForDuplicates after the answer: the warning is collected and the   *)
(* loop goes on                                                            *)
HS_After(t) ==
  /\ task[t].pc = "hs_after"
  /\ LET f == task[t]
         nxt == NextWithParty(f.batch, f.i + 1)
         g == [f EXCEPT !.found = IF f.isDup THEN Append(@, f.batch[f.i]) ELSE @]
     IN  IF nxt <= Len(f.batch)
         THEN /\ task' = [task EXCEPT ![t] = [g EXCEPT !.pc = "hs_lookup", !.i = nxt]]
              /\ last' = Event("collected", g)
              /\ UNCHANGED <<duplicates, isProcessing>>
         ELSE AfterDuplicateLoop(t, g)
  /\ UNCHANGED <<parties, transactions, inTransaction, snapshot, nextId, now,
                 isSaving, parsedEntries>>

----------------------------------------------------------------------------
(* handleSubmit, the apply phase                                           *)

(* the row processSaleEntry / processBillEntry / processPaymentEntry insert *)
SubmitRow(e, partyId, ts) ==
  IF e.type = "sale"
  THEN Row(e.id, e.date, "sale", e.amount, e.payment_mode, NULL, NULL, partyId, ts)
  ELSE IF e.type = "bill"
  THEN Row(e.id, e.date, "bill", e.amount, NULL, NULL, e.billNumber, partyId, ts)
  ELSE Row(e.id, e.date, "expense", e.amount, NULL, "party_payment", NULL, partyId, ts)

(* the change of the party's current_balance that follows the insert *)
SubmitDelta(e, partyId) ==
  IF partyId = NULL THEN 0
  ELSE IF e.type = "sale" THEN (IF e.payment_mode = "credit" THEN e.amount ELSE 0)
  ELSE IF e.type = "bill" THEN e.amount
  ELSE 0 - e.amount

(* one iteration of the apply loop on entry f.i: party lookup or creation, *)
(* INSERT, UPDATE.  began is the table state at BEGIN.                     *)
SubmitEntry(t, f, began) ==
  LET e == f.batch[f.i]
      existing == IF e.party_name = NULL THEN NULL
                  ELSE FindPartyByName(CurrentDb, e.party_name)
      creates == e.party_name # NULL /\ existing = NULL
      pid == IF creates THEN NewPartyId(CurrentDb) ELSE existing
      db0 == IF creates THEN InsertParty(CurrentDb, pid, e.party_name, now) ELSE CurrentDb
      db1 == InsertTransaction(db0, SubmitRow(e, pid, now))
      db2 == AdjustBalance(db1, pid, SubmitDelta(e, pid), now)
      clash == \E k \in DOMAIN transactions : transactions[k].id = e.id
      g == [f EXCEPT !.created = IF creates THEN @ \cup {pid} ELSE @]
  IN  \E fault \in WriteFaults :
        /\ (clash => fault = "insert")
        /\ UNCHANGED nextId
        /\ IF fault = "none"
           THEN /\ SetDb(db2)
                /\ inTransaction' = TRUE
                /\ snapshot' = began
                /\ task' = [task EXCEPT ![t] =
                     [g EXCEPT !.pc = IF f.i < Len(f.batch) THEN "hs_next" ELSE "hs_commit",
                               !.i = IF f.i < Len(f.batch) THEN f.i + 1 ELSE f.i,
                               !.inserted = @ \cup {e.id},
                               !.touched = IF pid # NULL /\ e.type \in {"bill", "payment"}
                                           THEN @ \cup {pid} ELSE @]]
                /\ last' = Event("insert", g)
                /\ UNCHANGED isProcessing
           ELSE /\ SetDb(Rollback(IF fault = "update" THEN db1 ELSE db0, began))
                /\ inTransaction' = FALSE
                /\ snapshot' = NoDb
                /\ isProcessing' = FALSE
                /\ task' = [task EXCEPT ![t] = Idle]
                /\ last' = [Event("rollback", g) EXCEPT
                              !.inserted = IF fault = "update" THEN @ \cup {e.id} ELSE @]

(* BEGIN TRANSACTION and the first iteration, up to its await *)
HS_Begin(t) ==
  /\ task[t].pc = "hs_begin"
  /\ IF inTransaction
     THEN /\ isProcessing' = FALSE
          /\ task' = [task EXCEPT ![t] = Idle]
          /\ last' = Event("begin_failed", task[t])
          /\ UNCHANGED <<parties, transactions, inTransaction, snapshot, nextId>>
     ELSE SubmitEntry(t, [task[t] EXCEPT !.pre = CurrentDb, !.i = 1], CurrentDb)
  /\ UNCHANGED <<now, isSaving, parsedEntries, duplicates>>

(* a later iteration of the apply loop *)
HS_Next(t) ==
  /\ task[t].pc = "hs_next"
  /\ SubmitEntry(t, task[t], snapshot)
  /\ UNCHANGED <<now, isSaving, parsedEntries, duplicates>>

(* COMMIT, db.save(), the form is cleared, finally setIsProcessing(false) *)
HS_Commit(t) ==
  /\ task[t].pc = "hs_commit"
  /\ inTransaction' = FALSE
  /\ snapshot' = NoDb
  /\ parsedEntries' = <<>>
  /\ duplicates' = <<>>
  /\ isProcessing' = FALSE
  /\ task' = [task EXCEPT ![t] = Idle]
  /\ last' = Event("commit", task[t])
  /\ UNCHANGED <<parties, transactions, nextId, now, isSaving>>

----------------------------------------------------------------------------
(* addTransaction                                                          *)

(* a catch that rethrows without ROLLBACK *)
AbortOpen(t, db, ev) ==
  /\ SetDb(db)
  /\ UNCHANGED <<inTransaction, snapshot>>
  /\ isSaving' = IF task[t].op = "addTransaction" THEN isSaving ELSE FALSE
  /\ task' = [task EXCEPT ![t] = Idle]
  /\ last' = ev

(* a failing statement inside the inner try of an operations.ts function:  *)
(* ROLLBACK and rethrow                                                    *)
Abort(t, db, ev) ==
  /\ SetDb(Rollback(db, snapshot))
  /\ inTransaction' = FALSE
  /\ snapshot' = NoDb
  /\ isSaving' = IF task[t].op = "addTransaction" THEN isSaving ELSE FALSE
  /\ task' = [task EXCEPT ![t] = Idle]
  /\ last' = ev

AddTransaction(t, pid, e) ==
  /\ FreeSlot(t)
  /\ BulkEntryUnmounted
  /\ pid \in DOMAIN parties
  /\ e.type \in {"bill", "payment", "sale"}
  /\ IdsLeft(1)
  /\ task' = [task EXCEPT ![t] = Frame("addTransaction", "at_begin", pid, <<e>>)]
  /\ last' = Event("call", task'[t])
  /\ UNCHANGED <<parties, transactions, inTransaction, snapshot, nextId, now,
                 isSaving, isProcessing, parsedEntries, duplicates>>

(* BEGIN TRANSACTION, then the duplicate check up to its await *)
AT_Begin(t) ==
  /\ task[t].pc = "at_begin"
  /\ IF inTransaction
     THEN /\ task' = [task EXCEPT ![t] = Idle]
          /\ last' = Event("begin_failed", task[t])
          /\ UNCHANGED <<inTransaction, snapshot>>
     ELSE /\ inTransaction' = TRUE
          /\ snapshot' = CurrentDb
          /\ task' = [task EXCEPT ![t] = [@ EXCEPT !.pc = "at_check", !.i = 1,
                                                    !.pre = CurrentDb]]
          /\ last' = Event("begin", task'[t])
  /\ UNCHANGED <<parties, transactions, nextId, now, isSaving, isProcessing,
                 parsedEntries, duplicates>>

AT_Check(t) ==
  /\ task[t].pc = "at_check"
  /\ \E fault \in BoolFaults :
       LET f == task[t]
           e == f.batch[1]
           dup == IF fault THEN FALSE
                  ELSE checkDuplicateTransaction(transactions, f.party, e.date,
                                                 e.amount, e.type, e.billNumber, now)
       IN  /\ task' = [task EXCEPT ![t] = [@ EXCEPT !.pc = "at_insert", !.isDup = dup]]
           /\ last' = [Event("dupcheck", task'[t]) EXCEPT !.fault = fault]
  /\ UNCHANGED <<parties, transactions, inTransaction, snapshot, nextId, now,
                 isSaving, isProcessing, parsedEntries, duplicates>>

(* a duplicate throws; otherwise generateId, INSERT + UPDATE for a bill or *)
(* a payment, and the call of recalculatePartyBalance up to its await      *)
AT_Insert(t) ==
  /\ task[t].pc = "at_insert"
  /\ LET f == task[t]
         e == f.batch[1]
         id == generateId(nextId)
         posts == e.type \in {"bill", "payment"}
         db1 == InsertTransaction(CurrentDb, BulkRow(e, id, f.party, now))
         db2 == AdjustBalance(db1, f.party, BulkDelta(e), now)
     IN  IF f.isDup
         THEN /\ Abort(t, CurrentDb, Event("rollback", f))
              /\ UNCHANGED nextId
         ELSE \E fault \in WriteFaults :
                /\ (~posts => fault = "none")
                /\ nextId' = nextId + 1
                /\ IF fault = "none"
                   THEN /\ SetDb(IF posts THEN db2 ELSE CurrentDb)
                        /\ task' = [task EXCEPT ![t] =
                             [@ EXCEPT !.pc = "at_recalc", !.txid = id,
                                       !.inserted = IF posts THEN {id} ELSE {},
                                       !.touched = IF posts THEN {f.party} ELSE {}]]
                        /\ last' = Event(IF posts THEN "insert" ELSE "skip", task'[t])
                        /\ UNCHANGED <<inTransaction, snapshot, isSaving>>
                   ELSE Abort(t, IF fault = "update" THEN db1 ELSE CurrentDb,
                              [Event("rollback", f) EXCEPT
                                 !.inserted = IF fault = "update" THEN {id} ELSE {}])
  /\ UNCHANGED <<now, isProcessing, parsedEntries, duplicates>>

AT_Recalc(t) ==
  /\ task[t].pc = "at_recalc"
  /\ \E fault \in BoolFaults :
       LET r == recalculatePartyBalance(CurrentDb, task[t].party, now)
       IN  IF ~fault
           THEN /\ SetDb(r.db)
                /\ task' = [task EXCEPT ![t] = [@ EXCEPT !.pc = "at_commit"]]
                /\ last' = [Event("recalc", task[t]) EXCEPT !.ret = r.ret]
                /\ UNCHANGED <<inTransaction, snapshot, isSaving>>
           ELSE Abort(t, CurrentDb, Event("rollback", task[t]))
  /\ UNCHANGED <<nextId, now, isProcessing, parsedEntries, duplicates>>

(* COMMIT, db.save(), return transactionId *)
AT_Commit(t) ==
  /\ task[t].pc = "at_commit"
  /\ inTransaction' = FALSE
  /\ snapshot' = NoDb
  /\ task' = [task EXCEPT ![t] = Idle]
  /\ last' = Event("commit", task[t])
  /\ UNCHANGED <<parties, transactions, nextId, now, isSaving, isProcessing,
                 parsedEntries, duplicates>>

----------------------------------------------------------------------------
(* deleteTransaction, called by PartyDetails.handleDeleteTransaction       *)

LedgerIds(t, pid) == { SelectLedger(t, pid)[k].id : k \in DOMAIN SelectLedger(t, pid) }

HandleDeleteTransaction(t, pid, txid) ==
  /\ FreeSlot(t)
  /\ BulkEntryUnmounted
  /\ pid \in DOMAIN parties
  /\ txid \in LedgerIds(transactions, pid)
  /\ isSaving' = TRUE
  /\ task' = [task EXCEPT ![t] =
       [Frame("deleteTransaction", "dt_begin", pid, <<>>) EXCEPT !.txid = txid]]
  /\ last' = Event("call", task'[t])
  /\ UNCHANGED <<parties, transactions, inTransaction, snapshot, nextId, now,
                 isProcessing, parsedEntries, duplicates>>

(* the balance change that undoes a deleted row *)
DeleteDelta(r) ==
  IF IsBill(r) THEN 0 - r.amount
  ELSE IF IsPayment(r) THEN r.amount
  ELSE 0

(* BEGIN TRANSACTION, SELECT the row, DELETE, UPDATE, and the call of      *)
(* recalculatePartyBalance up to its await                                 *)
DT_Begin(t) ==
  /\ task[t].pc = "dt_begin"
  /\ LET f == task[t]
         hits == { k \in DOMAIN transactions :
                     transactions[k].id = f.txid /\ transactions[k].party_id = f.party }
     IN  IF inTransaction
         THEN /\ isSaving' = FALSE
              /\ task' = [task EXCEPT ![t] = Idle]
              /\ last' = Event("begin_failed", f)
              /\ UNCHANGED <<parties, transactions, inTransaction, snapshot>>
         ELSE IF hits = {}
         THEN /\ isSaving' = FALSE
              /\ task' = [task EXCEPT ![t] = Idle]
              /\ last' = [Event("rollback", f) EXCEPT !.pre = CurrentDb]
              /\ UNCHANGED <<parties, transactions, inTransaction, snapshot>>
         ELSE \E fault \in WriteFaults :
                LET r == transactions[CHOOSE k \in hits : TRUE]
                    db1 == DeleteTransactionRow(CurrentDb, f.txid)
                    db2 == AdjustBalance(db1, f.party, DeleteDelta(r), now)
                    g == [f EXCEPT !.pre = CurrentDb, !.touched = {f.party}]
                IN  IF fault = "none"
                    THEN /\ SetDb(db2)
                         /\ inTransaction' = TRUE
                         /\ snapshot' = CurrentDb
                         /\ task' = [task EXCEPT ![t] = [g EXCEPT !.pc = "dt_recalc"]]
                         /\ last' = Event("delete", g)
                         /\ UNCHANGED isSaving
                    ELSE /\ UNCHANGED <<parties, transactions, inTransaction, snapshot>>
                         /\ isSaving' = FALSE
                         /\ task' = [task EXCEPT ![t] = Idle]
                         /\ last' = Event("rollback", g)
  /\ UNCHANGED <<nextId, now, isProcessing, parsedEntries, duplicates>>

DT_Recalc(t) ==
  /\ task[t].pc = "dt_recalc"
  /\ \E fault \in BoolFaults :
       LET r == recalculatePartyBalance(CurrentDb, task[t].party, now)
       IN  IF ~fault
           THEN /\ SetDb(r.db)
                /\ task' = [task EXCEPT ![t] = [@ EXCEPT !.pc = "dt_commit"]]
                /\ last' = [Event("recalc", task[t]) EXCEPT !.ret = r.ret]
                /\ UNCHANGED <<inTransaction, snapshot, isSaving>>
           ELSE Abort(t, CurrentDb, Event("rollback", task[t]))
  /\ UNCHANGED <<nextId, now, isProcessing, parsedEntries, duplicates>>

(* COMMIT and db.save(); handleDeleteTransaction goes on to reload *)
DT_Commit(t) ==
  /\ task[t].pc = "dt_commit"
  /\ inTransaction' = FALSE
  /\ snapshot' = NoDb
  /\ task' = [task EXCEPT ![t] = [@ EXCEPT !.pc = "finish"]]
  /\ last' = Event("commit", task[t])
  /\ UNCHANGED <<parties, transactions, nextId, now, isSaving, isProcessing,
                 parsedEntries, duplicates>>

----------------------------------------------------------------------------
(* PartyDetails.handleFixBalances                                          *)

HandleFixBalances(t, pid) ==
  /\ FreeSlot(t)
  /\ BulkEntryUnmounted
  /\ pid \in DOMAIN parties
  /\ ~isSaving
  /\ isSaving' = TRUE
  /\ task' = [task EXCEPT ![t] = Frame("handleFixBalances", "hf_select", pid, <<>>)]
  /\ last' = Event("call", task'[t])
  /\ UNCHANGED <<parties, transactions, inTransaction, snapshot, nextId, now,
                 isProcessing, parsedEntries, duplicates>>

(* SELECT id, date, created_at FROM transactions WHERE party_id = ? *)
HF_Select(t) ==
  /\ task[t].pc = "hf_select"
  /\ LET rows == OrderRows(SelectSeq(transactions,
                                     LAMBDA r : r.party_id = task[t].party))
     IN  task' = [task EXCEPT ![t] =
           [@ EXCEPT !.pc = "hf_touch", !.ids = [k \in DOMAIN rows |-> rows[k].id]]]
  /\ last' = Event("select", task[t])
  /\ UNCHANGED <<parties, transactions, inTransaction, snapshot, nextId, now,
                 isSaving, isProcessing, parsedEntries, duplicates>>

(* UPDATE transactions SET updated_at = CURRENT_TIMESTAMP for each id: the *)
(* column updated_at is not part of the model, the rows stay as they are   *)
HF_Touch(t) ==
  /\ task[t].pc = "hf_touch"
  /\ task' = [task EXCEPT ![t] = [@ EXCEPT !.pc = "hf_recalc"]]
  /\ last' = Event("touch", task[t])
  /\ UNCHANGED <<parties, transactions, inTransaction, snapshot, nextId, now,
                 isSaving, isProcessing, parsedEntries, duplicates>>

(* recalculatePartyBalance(id); an error is reported and the handler ends *)
HF_Recalc(t) ==
  /\ task[t].pc = "hf_recalc"
  /\ \E fault \in BoolFaults :
       LET r == recalculatePartyBalance(CurrentDb, task[t].party, now)
       IN  IF ~fault
           THEN /\ SetDb(r.db)
                /\ task' = [task EXCEPT ![t] = [@ EXCEPT !.pc = "finish"]]
                /\ last' = [Event("recalc", task[t]) EXCEPT !.ret = r.ret]
                /\ UNCHANGED isSaving
           ELSE /\ UNCHANGED <<parties, transactions>>
                /\ isSaving' = FALSE
                /\ task' = [task EXCEPT ![t] = Idle]
                /\ last' = Event("failed", task[t])
  /\ UNCHANGED <<inTransaction, snapshot, nextId, now, isProcessing,
                 parsedEntries, duplicates>>

----------------------------------------------------------------------------
Next ==
  \/ Tick
  \/ \E b \in Batches : HandleEntriesChange(b)
  \/ ProcessAnyway
  \/ LeaveBulkEntry
  \/ \E t \in Tasks : HandleSubmit(t)
  \/ \E t \in Tasks, b \in Inputs : ProcessEntries(t, b)
  \/ \E t \in Tasks : HS_Lookup(t)
  \/ \E t \in Tasks : HS_Query(t)
  \/ \E t \in Tasks : HS_After(t)
  \/ \E t \in Tasks : HS_Begin(t)
  \/ \E t \in Tasks : HS_Next(t)
  \/ \E t \in Tasks : HS_Commit(t)
  \/ \E t \in Tasks, pid \in DOMAIN parties, b \in BulkBatches : HandleBulkEntry(t, pid, b)
  \/ \E t \in Tasks : PB_Begin(t)
  \/ \E t \in Tasks : PB_Check(t)
  \/ \E t \in Tasks : PB_Insert(t)
  \/ \E t \in Tasks : PB_Recalc(t)
  \/ \E t \in Tasks : PB_Commit(t)
  \/ \E t \in Tasks : Finish(t)
  \/ \E t \in Tasks, pid \in DOMAIN parties, e \in DirectEntries : AddTransaction(t, pid, e)
  \/ \E t \in Tasks : AT_Begin(t)
  \/ \E t \in Tasks : AT_Check(t)
  \/ \E t \in Tasks : AT_Insert(t)
  \/ \E t \in Tasks : AT_Recalc(t)
  \/ \E t \in Tasks : AT_Commit(t)
  \/ \E t \in Tasks, pid \in DOMAIN parties :
       \E txid \in LedgerIds(transactions, pid) : HandleDeleteTransaction(t, pid, txid)
  \/ \E t \in Tasks : DT_Begin(t)
  \/ \E t \in Tasks : DT_Recalc(t)
  \/ \E t \in Tasks : DT_Commit(t)
  \/ \E t \in Tasks, pid \in DOMAIN parties : HandleFixBalances(t, pid)
  \/ \E t \in Tasks : HF_Select(t)
  \/ \E t \in Tasks : HF_Touch(t)
  \/ \E t \in Tasks : HF_Recalc(t)

Spec == Init /\ [][Next]_vars

----------------------------------------------------------------------------
(* The apply entry points with two calls in flight: a page starts a second *)
(* call while the first is suspended at an await.                          *)
InitConc == InitStore /\ task = [t \in TwoFrames |-> Idle]

NextConc ==
  \/ \E b \in Inputs : HandleEntriesChange(b)
  \/ LeaveBulkEntry
  \/ \E t \in Tasks : HandleSubmit(t)
  \/ \E t \in Tasks, b \in Inputs : ProcessEntries(t, b)
  \/ \E t \in Tasks : HS_Lookup(t)
  \/ \E t \in Tasks : HS_Query(t)
  \/ \E t \in Tasks : HS_After(t)
  \/ \E t \in Tasks : HS_Begin(t)
  \/ \E t \in Tasks : HS_Next(t)
  \/ \E t \in Tasks : HS_Commit(t)
  \/ \E t \in Tasks, pid \in DOMAIN parties, b \in BulkBatches : HandleBulkEntry(t, pid, b)
  \/ \E t \in Tasks : PB_Begin(t)
  \/ \E t \in Tasks : PB_Check(t)
  \/ \E t \in Tasks : PB_Insert(t)
  \/ \E t \in Tasks : PB_Recalc(t)
  \/ \E t \in Tasks : PB_Commit(t)
  \/ \E t \in Tasks : Finish(t)

SpecConc == InitConc /\ [][NextConc]_vars

----------------------------------------------------------------------------
(* The BulkEntry page alone, with batches that spell the name of a party   *)
(* in two ways.                                                            *)
NextNames ==
  \/ Tick
  \/ \E b \in NameBatches : HandleEntriesChange(b)
  \/ ProcessAnyway
  \/ LeaveBulkEntry
  \/ \E t \in Tasks : HandleSubmit(t)
  \/ \E t \in Tasks : HS_Lookup(t)
  \/ \E t \in Tasks : HS_Query(t)
  \/ \E t \in Tasks : HS_After(t)
  \/ \E t \in Tasks : HS_Begin(t)
  \/ \E t \in Tasks : HS_Next(t)
  \/ \E t \in Tasks : HS_Commit(t)

SpecNames == Init /\ [][NextNames]_vars

----------------------------------------------------------------------------
(* PartyDetails: handleBulkDeleteTransactions, the Delete Selected button  *)

(* the rows the page lists for the party can be ticked; without a tick the *)
(* handler alerts and returns                                              *)
HandleBulkDeleteTransactions(t, pid, sel) ==
  /\ FreeSlot(t)
  /\ BulkEntryUnmounted
  /\ pid \in DOMAIN parties
  /\ sel \subseteq LedgerIds(transactions, pid)
  /\ IF sel = {}
     THEN /\ last' = [Event("no_selection", Idle) EXCEPT
                        !.op = "handleBulkDeleteTransactions", !.party = pid]
          /\ UNCHANGED <<isSaving, task>>
     ELSE /\ isSaving' = TRUE
          /\ task' = [task EXCEPT ![t] =
               [Frame("handleBulkDeleteTransactions", "bd_begin", pid, <<>>)
                  EXCEPT !.selected = sel]]
          /\ last' = Event("call", task'[t])
  /\ UNCHANGED <<parties, transactions, inTransaction, snapshot, nextId, now,
                 isProcessing, parsedEntries, duplicates>>

(* after db.init(): BEGIN TRANSACTION, the selection sorted by date, and   *)
(* the call of deleteTransaction for its first row up to the await of      *)
(* db.init() in it                                                         *)
BD_Begin(t) ==
  /\ task[t].pc = "bd_begin"
  /\ IF inTransaction
     THEN /\ isSaving' = FALSE
          /\ task' = [task EXCEPT ![t] = Idle]
          /\ last' = Event("begin_failed", task[t])
          /\ UNCHANGED <<inTransaction, snapshot>>
     ELSE /\ inTransaction' = TRUE
          /\ snapshot' = CurrentDb
          /\ task' = [task EXCEPT ![t] = [@ EXCEPT !.pc = "bd_delete",
                                                    !.pre = CurrentDb]]
          /\ last' = Event("begin", task'[t])
          /\ UNCHANGED isSaving
  /\ UNCHANGED <<parties, transactions, nextId, now, isProcessing,
                 parsedEntries, duplicates>>

(* deleteTransaction goes on after db.init(): its BEGIN TRANSACTION is run *)
(* while the transaction of the handler is open and throws; its outer      *)
(* catch rethrows; the inner catch of the handler issues ROLLBACK and      *)
(* rethrows, the outer one alerts, finally setIsSaving(false)              *)
BD_Delete(t) ==
  /\ task[t].pc = "bd_delete"
  /\ inTransaction
  /\ SetDb(Rollback(CurrentDb, snapshot))
  /\ inTransaction' = FALSE
  /\ snapshot' = NoDb
  /\ isSaving' = FALSE
  /\ task' = [task EXCEPT ![t] = Idle]
  /\ last' = Event("rollback", task[t])
  /\ UNCHANGED <<nextId, now, isProcessing, parsedEntries, duplicates>>

----------------------------------------------------------------------------
(* The bulk import and the bulk delete of PartyDetails alone, on the store *)
(* that a credit sale of 2 to Maa on the Sales page left: the party        *)
(* with the sale on its balance, and the row of the sale.  The batches     *)
(* hold entries of one date in both orders, and one entry twice.           *)
PaymentSmall == Entry("payment", 1, 1, "Maa", NULL, NULL)

OrderBatches ==
  { <<BillMaa>>, <<BillMaa, BillMaa>>,
    <<BillMaa, PaymentSmall>>, <<PaymentSmall, BillMaa>>,
    <<BillMaa, PaymentMaa>>, <<PaymentMaa, BillMaa>>,
    <<PaymentLater, BillMaa>> }

SaleStore ==
  Db([x \in {"p1"} |-> [name |-> "Maa", current_balance |-> 2]],
     <<Row("s1", 1, "sale", 2, "credit", NULL, NULL, "p1", 0)>>)

InitBulk ==
  /\ parties = SaleStore.p
  /\ transactions = SaleStore.t
  /\ inTransaction = FALSE
  /\ snapshot = NoDb
  /\ nextId = 0
  /\ now = 0
  /\ isSaving = FALSE
  /\ isProcessing = FALSE
  /\ parsedEntries = <<>>
  /\ duplicates = <<>>
  /\ last = Event("init", Idle)
  /\ task = [t \in OneFrame |-> Idle]

NextBulk ==
  \/ Tick
  \/ \E t \in Tasks, pid \in DOMAIN parties, b \in OrderBatches : HandleBulkEntry(t, pid, b)
  \/ \E t \in Tasks : PB_Begin(t)
  \/ \E t \in Tasks : PB_Check(t)
  \/ \E t \in Tasks : PB_Insert(t)
  \/ \E t \in Tasks : PB_Recalc(t)
  \/ \E t \in Tasks : PB_Commit(t)
  \/ \E t \in Tasks : Finish(t)
  \/ \E t \in Tasks, pid \in DOMAIN parties :
       \E sel \in SUBSET LedgerIds(transactions, pid) :
         HandleBulkDeleteTransactions(t, pid, sel)
  \/ \E t \in Tasks : BD_Begin(t)
  \/ \E t \in Tasks : BD_Delete(t)

SpecBulk == InitBulk /\ [][NextBulk]_vars

----------------------------------------------------------------------------
(* The operations of operations.ts on a store with two parties: the store  *)
(* the BulkEntry page left after the batch of a bill for maa and a bill    *)
(* for Maa was submitted (two parties, a row each without running          *)
(* balance).                                                               *)
TwoLedgers ==
  Db([x \in {"p1", "p2"} |->
        IF x = "p1" THEN [name |-> "maa", current_balance |-> BillLower.amount]
        ELSE [name |-> "Maa", current_balance |-> BillMaa.amount]],
     << SubmitRow([BillLower EXCEPT !.id = "x1"], "p1", 0),
        SubmitRow([BillMaa EXCEPT !.id = "x2"], "p2", 0) >>)

InitLedgers ==
  /\ parties = TwoLedgers.p
  /\ transactions = TwoLedgers.t
  /\ inTransaction = FALSE
  /\ snapshot = NoDb
  /\ nextId = 0
  /\ now = 0
  /\ isSaving = FALSE
  /\ isProcessing = FALSE
  /\ parsedEntries = <<>>
  /\ duplicates = <<>>
  /\ last = Event("init", Idle)
  /\ task = [t \in OneFrame |-> Idle]

NextLedgers ==
  \/ \E t \in Tasks, pid \in DOMAIN parties, b \in BulkBatches : HandleBulkEntry(t, pid, b)
  \/ \E t \in Tasks : PB_Begin(t)
  \/ \E t \in Tasks : PB_Check(t)
  \/ \E t \in Tasks : PB_Insert(t)
  \/ \E t \in Tasks : PB_Recalc(t)
  \/ \E t \in Tasks : PB_Commit(t)
  \/ \E t \in Tasks : Finish(t)
  \/ \E t \in Tasks, pid \in DOMAIN parties, e \in DirectEntries : AddTransaction(t, pid, e)
  \/ \E t \in Tasks : AT_Begin(t)
  \/ \E t \in Tasks : AT_Check(t)
  \/ \E t \in Tasks : AT_Insert(t)
  \/ \E t \in Tasks : AT_Recalc(t)
  \/ \E t \in Tasks : AT_Commit(t)
  \/ \E t \in Tasks, pid \in DOMAIN parties :
       \E txid \in LedgerIds(transactions, pid) : HandleDeleteTransaction(t, pid, txid)
  \/ \E t \in Tasks : DT_Begin(t)
  \/ \E t \in Tasks : DT_Recalc(t)
  \/ \E t \in Tasks : DT_Commit(t)
  \/ \E t \in Tasks, pid \in DOMAIN parties : HandleFixBalances(t, pid)
  \/ \E t \in Tasks : HF_Select(t)
  \/ \E t \in Tasks : HF_Touch(t)
  \/ \E t \in Tasks : HF_Recalc(t)

SpecLedgers == InitLedgers /\ [][NextLedgers]_vars

----------------------------------------------------------------------------
(* The four operations that open a store transaction, one call at a time,  *)
(* with the scheduling of the event loop: a call suspended at an await is  *)
(* resumed (every awaited promise is one of the program's own async        *)
(* functions or db.init(), which resolves once the database is loaded).    *)
Resume(t) ==
  \/ PB_Begin(t) \/ PB_Check(t) \/ PB_Insert(t) \/ PB_Recalc(t) \/ PB_Commit(t)
  \/ HS_Lookup(t) \/ HS_Query(t) \/ HS_After(t) \/ HS_Begin(t) \/ HS_Next(t)
  \/ HS_Commit(t)
  \/ AT_Begin(t) \/ AT_Check(t) \/ AT_Insert(t) \/ AT_Recalc(t) \/ AT_Commit(t)
  \/ DT_Begin(t) \/ DT_Recalc(t) \/ DT_Commit(t)
  \/ Finish(t)

NextLive ==
  \/ \E b \in Batches : HandleEntriesChange(b)
  \/ \E t \in Tasks : HandleSubmit(t)
  \/ \E t \in Tasks, pid \in DOMAIN parties, b \in BulkBatches : HandleBulkEntry(t, pid, b)
  \/ \E t \in Tasks, pid \in DOMAIN parties, e \in DirectEntries : AddTransaction(t, pid, e)
  \/ \E t \in Tasks, pid \in DOMAIN parties :
       \E txid \in LedgerIds(transactions, pid) : HandleDeleteTransaction(t, pid, txid)
  \/ \E t \in Tasks : PB_Begin(t)
  \/ \E t \in Tasks : PB_Check(t)
  \/ \E t \in Tasks : PB_Insert(t)
  \/ \E t \in Tasks : PB_Recalc(t)
  \/ \E t \in Tasks : PB_Commit(t)
  \/ \E t \in Tasks : HS_Lookup(t)
  \/ \E t \in Tasks : HS_Query(t)
  \/ \E t \in Tasks : HS_After(t)
  \/ \E t \in Tasks : HS_Begin(t)
  \/ \E t \in Tasks : HS_Next(t)
  \/ \E t \in Tasks : HS_Commit(t)
  \/ \E t \in Tasks : AT_Begin(t)
  \/ \E t \in Tasks : AT_Check(t)
  \/ \E t \in Tasks : AT_Insert(t)
  \/ \E t \in Tasks : AT_Recalc(t)
  \/ \E t \in Tasks : AT_Commit(t)
  \/ \E t \in Tasks : DT_Begin(t)
  \/ \E t \in Tasks : DT_Recalc(t)
  \/ \E t \in Tasks : DT_Commit(t)
  \/ \E t \in Tasks : Finish(t)

SpecLive == Init /\ [][NextLive]_vars /\ \A t \in OneFrame : WF_vars(Resume(t))

----------------------------------------------------------------------------
(* The parser (pages/BulkEntry/utils/parser.ts).  A string is the sequence *)
(* of its characters.  An absent (null) or empty string is the empty       *)
(* sequence.  Numbers are integers: the inputs hold no fraction and no     *)
(* exponent.                                                               *)

Digits == <<"0", "1", "2", "3", "4", "5", "6", "7", "8", "9">>
UpperCase == <<"A", "B", "C", "D", "E", "F", "G", "H", "I", "J", "K", "L", "M", "N", "O", "P", "Q", "R", "S", "T", "U", "V", "W", "X", "Y", "Z">>
LowerCase == <<"a", "b", "c", "d", "e", "f", "g", "h", "i", "j", "k", "l", "m", "n", "o", "p", "q", "r", "s", "t", "u", "v", "w", "x", "y", "z">>
NewLine == "\n"
NoText == <<>>

DigitChars == { Digits[i] : i \in DOMAIN Digits }
SpaceChars == {" "}
IsDigit(c) == c \in DigitChars
DigitValue(c) == (CHOOSE i \in DOMAIN Digits : Digits[i] = c) - 1
IsSpace(c) == c \in SpaceChars

toLowerCase(s) ==
  [i \in DOMAIN s |->
     IF \E k \in DOMAIN UpperCase : UpperCase[k] = s[i]
     THEN LowerCase[CHOOSE k \in DOMAIN UpperCase : UpperCase[k] = s[i]]
     ELSE s[i]]

toUpperCase(s) ==
  [i \in DOMAIN s |->
     IF \E k \in DOMAIN LowerCase : LowerCase[k] = s[i]
     THEN UpperCase[CHOOSE k \in DOMAIN LowerCase : LowerCase[k] = s[i]]
     ELSE s[i]]

(* String.prototype.trim *)
RECURSIVE trimStart(_)
trimStart(s) == IF s # <<>> /\ IsSpace(Head(s)) THEN trimStart(Tail(s)) ELSE s

RECURSIVE trimEnd(_)
trimEnd(s) ==
  IF s # <<>> /\ IsSpace(s[Len(s)]) THEN trimEnd(SubSeq(s, 1, Len(s) - 1)) ELSE s

trim(s) == trimEnd(trimStart(s))

(* s.split(c) for a one-character separator *)
RECURSIVE splitOn(_, _)
splitOn(s, c) ==
  IF \E i \in DOMAIN s : s[i] = c
  THEN LET i == CHOOSE k \in DOMAIN s : s[k] = c /\ \A j \in 1..(k - 1) : s[j] # c
       IN  <<SubSeq(s, 1, i - 1)>> \o splitOn(SubSeq(s, i + 1, Len(s)), c)
  ELSE <<s>>

(* the end of the run of characters of a kind that starts at i *)
RunEnd(s, i, kind) ==
  CHOOSE j \in i..(Len(s) + 1) :
    /\ \A k \in i..(j - 1) : s[k] \in kind
    /\ j > Len(s) \/ s[j] \notin kind

(* s.split(/\s+/) *)
RECURSIVE splitFrom(_, _, _)
splitFrom(s, i, word) ==
  IF i > Len(s) THEN <<word>>
  ELSE IF IsSpace(s[i]) THEN <<word>> \o splitFrom(s, RunEnd(s, i, SpaceChars), <<>>)
  ELSE splitFrom(s, i + 1, Append(word, s[i]))

splitSpaces(s) == splitFrom(s, 1, <<>>)

(* parts.join(' ') *)
RECURSIVE join(_)
join(parts) ==
  IF parts = <<>> THEN <<>>
  ELSE IF Len(parts) = 1 THEN parts[1]
  ELSE parts[1] \o <<" ">> \o join(Tail(parts))

(* parts.slice(from) and parts.slice(from, to), with the indices of TLA+ *)
slice(parts, from, to) == SubSeq(parts, from, to)

(* the number a run of digits writes *)
RECURSIVE NumberOf(_)
NumberOf(ds) ==
  IF ds = <<>> THEN 0
  ELSE 10 * NumberOf(SubSeq(ds, 1, Len(ds) - 1)) + DigitValue(ds[Len(ds)])

(* parseInt(s, 10): the digits at the start of s, NaN without one *)
parseInt(s) ==
  LET to == RunEnd(s, 1, DigitChars)
  IN  IF to = 1 THEN [nan |-> TRUE, value |-> 0]
      ELSE [nan |-> FALSE, value |-> NumberOf(SubSeq(s, 1, to - 1))]

(* parseFloat(s): an optional sign and the digits that follow, whatever    *)
(* comes after them; NaN without a digit                                   *)
parseFloat(s) ==
  LET signed == s # <<>> /\ s[1] \in {"-", "+"}
      from == IF signed THEN 2 ELSE 1
      to == RunEnd(s, from, DigitChars)
      n == NumberOf(SubSeq(s, from, to - 1))
  IN  IF to = from THEN [nan |-> TRUE, value |-> 0]
      ELSE [nan |-> FALSE, value |-> IF signed /\ s[1] = "-" THEN 0 - n ELSE n]

(* a literal at position i *)
HasAt(s, i, lit) ==
  i + Len(lit) - 1 <= Len(s) /\ SubSeq(s, i, i + Len(lit) - 1) = lit

DigitsAt(s, i, n) == \A k \in i..(i + n - 1) : k <= Len(s) /\ IsDigit(s[k])

(* \d{1,2}\/ at position i: the position after it, 0 without a match *)
NumSlashEnd(s, i) ==
  IF DigitsAt(s, i, 2) /\ HasAt(s, i + 2, <<"/">>) THEN i + 3
  ELSE IF DigitsAt(s, i, 1) /\ HasAt(s, i + 1, <<"/">>) THEN i + 2
  ELSE 0

(* \d{1,2}\/\d{1,2}\/\d{2} at position i: the position after it, or 0 *)
DateEnd(s, i) ==
  LET a == NumSlashEnd(s, i)
      b == IF a = 0 THEN 0 ELSE NumSlashEnd(s, a)
  IN  IF b # 0 /\ DigitsAt(s, b, 2) THEN b + 2 ELSE 0

NoMatch == [found |-> FALSE, start |-> 0, stop |-> 0, group |-> <<>>]

(* datePatterns[0] = /\(date:\s*(\d{1,2}\/\d{1,2}\/\d{2})\)/ at position i *)
DatedPatternAt(s, i) ==
  IF ~HasAt(s, i, <<"(", "d", "a", "t", "e", ":">>) THEN NoMatch
  ELSE LET d == RunEnd(s, i + 6, SpaceChars)
           e == DateEnd(s, d)
       IN  IF e # 0 /\ HasAt(s, e, <<")">>)
           THEN [found |-> TRUE, start |-> i, stop |-> e, group |-> SubSeq(s, d, e - 1)]
           ELSE NoMatch

(* datePatterns[1] = /\((\d{1,2}\/\d{1,2}\/\d{2})\)/ at position i *)
BarePatternAt(s, i) ==
  IF ~HasAt(s, i, <<"(">>) THEN NoMatch
  ELSE LET e == DateEnd(s, i + 1)
       IN  IF e # 0 /\ HasAt(s, e, <<")">>)
           THEN [found |-> TRUE, start |-> i, stop |-> e, group |-> SubSeq(s, i + 1, e - 1)]
           ELSE NoMatch

(* a pattern of datePatterns at position i *)
PatternAt(pattern, s, i) ==
  IF pattern = 0 THEN DatedPatternAt(s, i) ELSE BarePatternAt(s, i)

(* s.match(datePatterns[pattern]): the leftmost match *)
match(s, pattern) ==
  LET hits == { i \in DOMAIN s : PatternAt(pattern, s, i).found }
  IN  IF hits = {} THEN NoMatch
      ELSE PatternAt(pattern, s, CHOOSE i \in hits : \A j \in hits : i <= j)

(* s.replace(pattern, ''), given the match *)
replaceMatch(s, m) == SubSeq(s, 1, m.start - 1) \o SubSeq(s, m.stop + 1, Len(s))

(* n.toString().padStart(2, '0') for 0 <= n <= 99 *)
padStart2(n) == <<Digits[(n \div 10) + 1], Digits[(n % 10) + 1]>>

Thrown == [ok |-> FALSE, value |-> <<>>]

(* formatDate: DD/MM/YY to 20YY-MM-DD, or a throw *)
formatDate(date) ==
  LET p == splitOn(trim(date), "/")
      nums == [i \in DOMAIN p |-> parseInt(trim(p[i]))]
      day == nums[1].value
      month == nums[2].value
      year == nums[3].value
  IN  IF Len(p) < 3 \/ \E i \in 1..3 : nums[i].nan THEN Thrown
      ELSE IF day = 0 \/ month = 0 \/ year = 0 THEN Thrown
      ELSE IF day < 1 \/ day > 31 THEN Thrown
      ELSE IF month < 1 \/ month > 12 THEN Thrown
      ELSE IF year < 0 \/ year > 99 THEN Thrown
      ELSE [ok |-> TRUE,
            value |-> <<"2", "0">> \o padStart2(year) \o <<"-">> \o
                      padStart2(month) \o <<"-">> \o padStart2(day)]

(* the loop over datePatterns: the first pattern that matches and whose    *)
(* date formatDate accepts gives the date and is cut out of the line; a    *)
(* throw of formatDate is caught and the next pattern is tried             *)
inlineDate(trimmedLine, selectedDate) ==
  LET m1 == match(trimmedLine, 0)
      m2 == match(trimmedLine, 1)
  IN  IF m1.found /\ formatDate(m1.group).ok
      THEN [entryDate |-> formatDate(m1.group).value,
            lineWithoutDate |-> trim(replaceMatch(trimmedLine, m1))]
      ELSE IF m2.found /\ formatDate(m2.group).ok
      THEN [entryDate |-> formatDate(m2.group).value,
            lineWithoutDate |-> trim(replaceMatch(trimmedLine, m2))]
      ELSE [entryDate |-> selectedDate, lineWithoutDate |-> trimmedLine]

STANDARD_EXPENSES ==
  { <<"H", "o", "m", "e">>, <<"R", "e", "n", "t">>, <<"P", "e", "t", "t", "y">>, <<"F", "o", "o", "d">>, <<"P", "o", "l", "y">>, <<"G", "P">>, <<"R", "e", "p", "a", "i", "r">>,
    <<"L", "a", "b", "o", "u", "r">>, <<"T", "r", "a", "n", "s", "p", "o", "r", "t">> }

(* s.includes(sub) *)
includes(s, sub) == \E i \in DOMAIN s : HasAt(s, i, sub)

(* line.toUpperCase().includes('GST') ? 1 : 0, on the parts of the line *)
lineHasGST(parts) ==
  IF \E i \in DOMAIN parts : includes(toUpperCase(parts[i]), <<"G", "S", "T">>) THEN 1 ELSE 0

(* a ParsedEntry (type and data in one record) *)
ParsedEntry(type, id, date, amount) ==
  [error |-> FALSE, type |-> type, id |-> id, date |-> date, amount |-> amount,
   payment_mode |-> NULL, party_name |-> NoText, staff_name |-> NoText,
   description |-> NoText, billNumber |-> NoText, hasGST |-> 0,
   expense_category |-> NULL]

(* the outcome of a parse function: an entry or a throw, and whether       *)
(* generateId() was called on the way                                      *)
Returns(entry) == [ok |-> TRUE, entry |-> entry, message |-> "", drew |-> TRUE]
Throws(message, drew) == [ok |-> FALSE, entry |-> <<>>, message |-> message, drew |-> drew]

(* replace(/^\(|\)$/g, '') *)
stripOuterParens(s) ==
  LET a == IF s # <<>> /\ s[1] = "(" THEN Tail(s) ELSE s
  IN  IF a # <<>> /\ a[Len(a)] = ")" THEN SubSeq(a, 1, Len(a) - 1) ELSE a

(* replace(/[()]/g, '') *)
stripParens(s) == SelectSeq(s, LAMBDA c : c \notin {"(", ")"})

(* a type indicator that is compared as it is written *)
isNetAsWritten(word) == word = <<"n", "e", "t">>

(* typeIndicator === 'net', with typeIndicator = parts[2].toLowerCase() *)
isNet(word) == toLowerCase(word) = <<"n", "e", "t">>

parseSaleEntry(parts, entryDate, id) ==
  IF Len(parts) < 2 THEN Throws("Invalid sale entry format", FALSE)
  ELSE LET amount == parseFloat(parts[2])
       IN  IF amount.nan THEN Throws("Invalid amount in sale entry", FALSE)
           ELSE Returns(
             IF Len(parts) <= 2
             THEN [ParsedEntry("sale", id, entryDate, amount.value)
                     EXCEPT !.payment_mode = "cash"]
             ELSE IF isNet(parts[3])
             THEN [ParsedEntry("sale", id, entryDate, amount.value)
                     EXCEPT !.payment_mode = "digital",
                            !.party_name = trim(join(slice(parts, 4, Len(parts))))]
             ELSE [ParsedEntry("sale", id, entryDate, amount.value)
                     EXCEPT !.payment_mode = "credit",
                            !.party_name =
                              trim(stripOuterParens(join(slice(parts, 3, Len(parts)))))])

(* the first numeric part after the name, with a slash or without *)
amountIndexAnyNumber(parts) ==
  LET hits == { i \in 2..Len(parts) : ~parseFloat(parts[i]).nan }
  IN  IF hits = {} THEN 0 ELSE CHOOSE i \in hits : \A j \in hits : i <= j

(* the first numeric part after the name that holds no slash *)
amountIndex(parts) ==
  LET hits == { i \in 2..Len(parts) :
                  /\ \A k \in DOMAIN parts[i] : parts[i][k] # "/"
                  /\ ~parseFloat(parts[i]).nan }
  IN  IF hits = {} THEN 0 ELSE CHOOSE i \in hits : \A j \in hits : i <= j

(* the description of a bill: GR and the part after it *)
grDescription(remainingParts) ==
  LET hits == { i \in DOMAIN remainingParts : toUpperCase(remainingParts[i]) = <<"G", "R">> }
      grIndex == IF hits = {} THEN 0 ELSE CHOOSE i \in hits : \A j \in hits : i <= j
  IN  IF grIndex # 0 /\ grIndex + 1 <= Len(remainingParts)
      THEN <<"G", "R", " ">> \o remainingParts[grIndex + 1]
      ELSE NoText

parseBillEntry(parts, entryDate, id) ==
  IF Len(parts) < 2 THEN Throws("Invalid bill entry format", FALSE)
  ELSE LET at == amountIndex(parts)
       IN  IF at = 0 THEN Throws("Invalid amount in bill entry", TRUE)
           ELSE Returns(
             [ParsedEntry("bill", id, entryDate, parseFloat(parts[at]).value)
                EXCEPT !.party_name = trim(parts[1]),
                       !.billNumber =
                         IF at > 2 THEN trim(stripParens(join(slice(parts, 2, at - 1))))
                         ELSE NoText,
                       !.description =
                         IF at < Len(parts)
                         THEN grDescription(slice(parts, at + 1, Len(parts)))
                         ELSE NoText,
                       !.hasGST =
                         IF \E i \in (at + 1)..Len(parts) : toUpperCase(parts[i]) = <<"G", "S", "T">>
                         THEN 1 ELSE 0])

expenseCategory(description) ==
  IF description = <<"g", "p">> THEN "goods_purchase"
  ELSE IF description = <<"h", "o", "m", "e">> THEN "home"
  ELSE IF description = <<"r", "e", "n", "t">> THEN "rent"
  ELSE IF description = <<"p", "e", "t", "t", "y">> THEN "petty"
  ELSE IF description = <<"p", "o", "l", "y">> THEN "poly"
  ELSE IF description = <<"f", "o", "o", "d">> THEN "food"
  ELSE "petty"

parseExpenseEntry(parts, entryDate, id) ==
  IF Len(parts) < 2 THEN Throws("Invalid expense entry format", FALSE)
  ELSE LET amount == parseFloat(parts[2])
           description == toLowerCase(parts[1])
       IN  IF amount.nan THEN Throws("Invalid amount in expense entry", FALSE)
           ELSE Returns(
             [ParsedEntry("expense", id, entryDate, amount.value)
                EXCEPT !.description = description,
                       !.hasGST = lineHasGST(parts),
                       !.expense_category = expenseCategory(description)])

parseStaffExpenseEntry(parts, entryDate, id) ==
  IF Len(parts) < 3 THEN Throws("Invalid staff expense format", FALSE)
  ELSE LET amount == parseFloat(parts[3])
           kind == IF toLowerCase(parts[2]) = <<"s", "a", "l">> THEN "salary" ELSE "advance"
       IN  IF amount.nan THEN Throws("Invalid amount in staff expense", FALSE)
           ELSE Returns(
             [ParsedEntry("expense", id, entryDate, amount.value)
                EXCEPT !.staff_name = parts[1],
                       !.description = IF kind = "salary" THEN <<"s", "a", "l", "a", "r", "y">> ELSE <<"a", "d", "v", "a", "n", "c", "e">>,
                       !.expense_category = kind])

parsePartyPaymentEntry(parts, entryDate, id) ==
  IF Len(parts) < 3 THEN Throws("Invalid party payment format", FALSE)
  ELSE LET amount == parseFloat(parts[2])
           hits == { i \in DOMAIN parts : toLowerCase(parts[i]) = <<"p", "a", "r", "t", "y">> }
           partyIndex == IF hits = {} THEN 0 ELSE CHOOSE i \in hits : \A j \in hits : i <= j
           nonGstParts ==
             SelectSeq(slice(parts, partyIndex + 1, Len(parts)),
                       LAMBDA p : toUpperCase(p) # <<"G", "S", "T">>)
       IN  IF amount.nan THEN Throws("Invalid amount in party payment", FALSE)
           ELSE Returns(
             [ParsedEntry("payment", id, entryDate, amount.value)
                EXCEPT !.party_name = parts[1],
                       !.description =
                         IF partyIndex # 0 /\ Len(parts) > partyIndex
                         THEN trim(join(nonGstParts)) ELSE NoText,
                       !.hasGST = lineHasGST(parts),
                       !.expense_category = "party_payment"])

parseRandomExpenseEntry(parts, entryDate, id) ==
  IF Len(parts) < 2 THEN Throws("Invalid expense format", FALSE)
  ELSE LET amount == parseFloat(parts[2])
       IN  IF amount.nan THEN Throws("Invalid amount", FALSE)
           ELSE Returns(
             [ParsedEntry("expense", id, entryDate, amount.value)
                EXCEPT !.description = toLowerCase(parts[1]),
                       !.hasGST = lineHasGST(parts),
                       !.expense_category = "petty"])

(* /^\d+\.$/ *)
isSaleMarker(word) ==
  /\ Len(word) >= 2
  /\ word[Len(word)] = "."
  /\ \A k \in 1..(Len(word) - 1) : IsDigit(word[k])

hasAmount(parts) == \E i \in DOMAIN parts : ~parseFloat(parts[i]).nan

(* a dispatch that looks for an amount before it looks for a keyword *)
hasKeywordAfterAmount(parts) == parts[1] \in STANDARD_EXPENSES /\ ~hasAmount(parts)

(* STANDARD_EXPENSES.has(firstWord) *)
hasKeyword(parts) == parts[1] \in STANDARD_EXPENSES

NoRule == [ok |-> FALSE, entry |-> <<>>, message |-> "Unrecognized entry format",
           drew |-> FALSE]

(* the dispatch on the parts of a line: the first rule that applies *)
dispatch(parts, entryDate, id) ==
  IF isSaleMarker(parts[1]) THEN parseSaleEntry(parts, entryDate, id)
  ELSE IF Len(parts) > 2 /\ toLowerCase(parts[2]) \in {<<"s", "a", "l">>, <<"a", "d", "v">>}
  THEN parseStaffExpenseEntry(parts, entryDate, id)
  ELSE IF Len(parts) >= 3 /\ toLowerCase(parts[3]) = <<"p", "a", "r", "t", "y">>
  THEN parsePartyPaymentEntry(parts, entryDate, id)
  ELSE IF Len(parts) >= 2
  THEN IF hasKeyword(parts) THEN parseExpenseEntry(parts, entryDate, id)
       ELSE IF hasAmount(parts) THEN parseBillEntry(parts, entryDate, id)
       ELSE parseRandomExpenseEntry(parts, entryDate, id)
  ELSE NoRule

ParseError(message, line) == [error |-> TRUE, message |-> message, line |-> line]

(* what a line pushes, given the outcome of its dispatch *)
pushed(trimmedLine, got, n) ==
  [out |-> IF got.ok THEN got.entry ELSE ParseError(got.message, trimmedLine),
   n |-> IF got.drew THEN n + 1 ELSE n]

(* the body of the loop of parseEntries for one line; n ids were drawn.    *)
(* Each const of the body is bound once, innermost last.                   *)
parseLine(line, selectedDate, n) ==
  CHOOSE result \in UNION UNION UNION
    { { { { pushed(trimmedLine, got, n) :
              got \in {dispatch(parts, dated.entryDate, generateId(n))} } :
            parts \in {splitSpaces(dated.lineWithoutDate)} } :
          dated \in {inlineDate(trimmedLine, selectedDate)} } :
        trimmedLine \in {trim(line)} } : TRUE

(* a loop that ends at the first line that fails *)
RECURSIVE parseUntilError(_, _, _)
parseUntilError(lines, selectedDate, n) ==
  IF lines = <<>> THEN [entries |-> <<>>, n |-> n]
  ELSE CHOOSE result \in
         { IF first.out.error THEN [entries |-> <<first.out>>, n |-> first.n]
           ELSE [entries |-> <<first.out>> \o
                             parseUntilError(Tail(lines), selectedDate, first.n).entries,
                 n |-> parseUntilError(Tail(lines), selectedDate, first.n).n] :
             first \in {parseLine(Head(lines), selectedDate, n)} } : TRUE

(* for (const line of lines): every line pushes one element *)
RECURSIVE parseLines(_, _, _)
parseLines(lines, selectedDate, n) ==
  IF lines = <<>> THEN [entries |-> <<>>, n |-> n]
  ELSE CHOOSE result \in UNION
         { { [entries |-> <<first.out>> \o rest.entries, n |-> rest.n] :
               rest \in {parseLines(Tail(lines), selectedDate, first.n)} } :
             first \in {parseLine(Head(lines), selectedDate, n)} } : TRUE

(* parseEntries(text, selectedDate); n ids were drawn before *)
parseEntries(text, selectedDate, n) ==
  parseLines(SelectSeq(splitOn(text, NewLine), LAMBDA line : trim(line) # <<>>),
             selectedDate, n)

----------------------------------------------------------------------------
(* The parser on its own: a text is pasted into the empty box of the page  *)
(* that was just mounted.  A text is one line of LinePool, or up to        *)
(* MaxLines lines of BatchPool: a line that fails, a blank line, lines     *)
(* that give an expense and a bill, and lines with an inline date.         *)
MaxLines == 2

LinePool ==
  { <<"1", ".", " ", "5">>,   \* 1. 5
    <<"1", ".", " ", "-", "5">>,   \* 1. -5
    <<"9", ".", " ", "5", " ", "N", "E", "T">>,   \* 9. 5 NET
    <<"3", ".", " ", "5", " ", "M", "a", "a", " ", "C", "o">>,   \* 3. 5 Maa Co
    <<"2", ".", " ", "x">>,   \* 2. x
    <<"2", "0", ".", " ", "5", " ", "(", "M", "a", "a", ")">>,   \* 20. 5 (Maa)
    <<"7", ".", " ", "5", " ", "n", "e", "t", " ", "M", "a", "a">>,   \* 7. 5 net Maa
    <<"A", "l", "o", "k", " ", "S", "a", "l", " ", "5">>,   \* Alok Sal 5
    <<"P", "B", "K", " ", "5", " ", "P", "a", "r", "t", "y", " ", "G", "S", "T">>,   \* PBK 5 Party GST
    <<"G", "P", " ", "5", " ", "G", "S", "T">>,   \* GP 5 GST
    <<"R", "e", "p", "a", "i", "r", " ", "x">>,   \* Repair x
    <<"M", "a", "a", " ", "5">>,   \* Maa 5
    <<"M", "a", "a", " ", "0">>,   \* Maa 0
    <<"P", "K", " ", "(", "S", "V", "2", ")", " ", "5", " ", "g", "s", "t", " ", "G", "R">>,   \* PK (SV2) 5 gst GR
    <<"M", "a", "a", " ", "S", "V", "1", " ", "5", " ", "G", "R", " ", "3">>,   \* Maa SV1 5 GR 3
    <<"S", "A", "J", " ", "(", "d", "a", "t", "e", ":", " ", "1", "3", "/", "1", "2", "/", "2", "4", ")", " ", "5">>,   \* SAJ (date: 13/12/24) 5
    <<"S", "A", "J", " ", "(", "d", "a", "t", "e", ":", " ", "3", "2", "/", "1", "2", "/", "2", "4", ")", " ", "5">>,   \* SAJ (date: 32/12/24) 5
    <<"S", "A", "J", " ", "(", "3", "/", "1", "3", "/", "2", "4", ")", " ", "5">>,   \* SAJ (3/13/24) 5
    <<"S", "A", "J", " ", "(", "1", "/", "1", "/", "0", "0", ")", " ", "5">>,   \* SAJ (1/1/00) 5
    <<"f", "o", "o">>,   \* foo
    <<"f", "o", "o", " ", "b", "a", "r">>,   \* foo bar
    <<" ", " ">> }   \*   

BatchPool ==
  { <<"f", "o", "o">>,   \* foo
    <<" ", " ">>,   \*   
    <<"G", "P", " ", "5", " ", "G", "S", "T">>,   \* GP 5 GST
    <<"M", "a", "a", " ", "S", "V", "1", " ", "5", " ", "G", "R", " ", "3">>,   \* Maa SV1 5 GR 3
    <<"S", "A", "J", " ", "(", "d", "a", "t", "e", ":", " ", "1", "3", "/", "1", "2", "/", "2", "4", ")", " ", "5">>,   \* SAJ (date: 13/12/24) 5
    <<"S", "A", "J", " ", "(", "d", "a", "t", "e", ":", " ", "3", "2", "/", "1", "2", "/", "2", "4", ")", " ", "5">> }   \* SAJ (date: 32/12/24) 5

DatePool == { <<"2", "0", "2", "4", "-", "0", "1", "-", "0", "1">>, <<"2", "0", "2", "5", "-", "0", "6", "-", "3", "0">> }

RECURSIVE joinLines(_)
joinLines(lines) ==
  IF Len(lines) = 1 THEN lines[1]
  ELSE lines[1] \o <<NewLine>> \o joinLines(Tail(lines))

Texts ==
  LinePool \cup
  { joinLines(ls) : ls \in UNION { [1..k -> BatchPool] : k \in 2..MaxLines } }

(* handleEntriesChange(value): setEntries, parseEntries(value,             *)
(* selectedDate), setParsedEntries, setDuplicates([])                      *)
HandleTextChange(value, selectedDate) ==
  /\ AllIdle
  /\ BulkEntryUnmounted
  /\ \E parsed \in {parseEntries(value, selectedDate, nextId)} :
       /\ IdsLeft(parsed.n - nextId)
       /\ parsedEntries' = parsed.entries
       /\ nextId' = parsed.n
  /\ duplicates' = <<>>
  /\ last' = [Event("parse", Idle) EXCEPT !.text = value, !.date = selectedDate]
  /\ UNCHANGED <<parties, transactions, inTransaction, snapshot, now,
                 isSaving, isProcessing, task>>

NextParse ==
  \/ \E value \in Texts, selectedDate \in DatePool : HandleTextChange(value, selectedDate)
  \/ LeaveBulkEntry

SpecParse == Init /\ [][NextParse]_vars

----------------------------------------------------------------------------
(* Properties.  The ledger of a party is computed here from the rows alone, *)
(* without the operators of the balance engine.                            *)

RowIds(t) == { t[k].id : k \in DOMAIN t }
BatchIds(b) == { b[k].id : k \in DOMAIN b }

(* the positions of the Bill and Payment rows of a party *)
LedgerRows(t, pid) ==
  { k \in DOMAIN t :
      /\ t[k].party_id = pid
      /\ \/ t[k].type = "bill"
         \/ t[k].type = "expense" /\ t[k].expense_category = "party_payment" }

Signed(r) == IF r.type = "bill" THEN r.amount ELSE 0 - r.amount

RECURSIVE SumOver(_, _)
SumOver(t, S) ==
  IF S = {} THEN 0
  ELSE LET k == CHOOSE x \in S : TRUE
       IN  Signed(t[k]) + SumOver(t, S \ {k})

(* row j is not after row k in (date, created_at) order, rowid on a tie *)
NotAfter(t, j, k) ==
  \/ t[j].date < t[k].date
  \/ /\ t[j].date = t[k].date
     /\ \/ t[j].created_at < t[k].created_at
        \/ t[j].created_at = t[k].created_at /\ j <= k

PrefixSum(t, pid, k) ==
  SumOver(t, { j \in LedgerRows(t, pid) : NotAfter(t, j, k) })

LedgerSum(t, pid) == SumOver(t, LedgerRows(t, pid))

LedgerConsistent(db, pid) ==
  /\ \A k \in LedgerRows(db.t, pid) :
       db.t[k].running_balance = Some(PrefixSum(db.t, pid, k))
  /\ \A k \in LedgerRows(db.t, pid) :
       (\A j \in LedgerRows(db.t, pid) : NotAfter(db.t, j, k))
         => Some(db.p[pid].current_balance) = db.t[k].running_balance

ApplyOps == {"processBulkEntries", "handleSubmit"}
MutatingOps == {"addTransaction", "deleteTransaction", "processBulkEntries", "handleSubmit"}

C2_CrossCheck ==
  last.ev = "recalc" =>
    /\ parties[last.party].current_balance = LedgerSum(transactions, last.party)
    /\ last.ret = LedgerSum(transactions, last.party)

(* C3: after a committed addTransaction, deleteTransaction,                *)
(* processBulkEntries or handleSubmit, the ledger of every party whose     *)
(* Bills or Payments the call changed is consistent: every running balance *)
(* is the prefix fold and current_balance is the last running balance.     *)
C3_PostMutation ==
  (last.ev = "commit" /\ last.op \in MutatingOps) =>
    \A p \in last.touched : LedgerConsistent(CurrentDb, p)

(* C4: after recalculatePartyBalance(p) every Bill/Payment row of p holds  *)
(* the fold from 0 over p's Bill/Payment rows up to it in (date,           *)
(* created_at) order; rows of other types add nothing.                     *)
C4_PrefixFold ==
  last.ev = "recalc" =>
    \A k \in LedgerRows(transactions, last.party) :
      transactions[k].running_balance = Some(PrefixSum(transactions, last.party, k))

(* a recalculation over two rows stored against their date order *)
C4_Witness ==
  /\ last.ev = "recalc"
  /\ \E j, k \in LedgerRows(transactions, last.party) :
       j < k /\ transactions[k].date < transactions[j].date

(* C5: recalculatePartyBalance run twice in a row gives, the second time,  *)
(* the same running balances, the same current_balance and the same return *)
(* value as the first time.                                                *)
C5_Idempotent ==
  \A p \in DOMAIN parties :
    LET once  == recalculatePartyBalance(CurrentDb, p, now)
        twice == recalculatePartyBalance(once.db, p, now)
    IN  twice.db = once.db /\ twice.ret = once.ret

(* a state left by a recalculation of a party with two ledger rows and a   *)
(* balance other than zero                                                 *)
C5_Witness ==
  /\ last.ev = "recalc"
  /\ Cardinality(LedgerRows(transactions, last.party)) >= 2
  /\ last.ret # 0

----------------------------------------------------------------------------
(* Properties of the duplicate check, read off the answer of a check that  *)
(* has just run (last.ev = "dupcheck") for entry last.entry of party       *)
(* last.party.                                                             *)

Checked == last.ev = "dupcheck" /\ ~last.fault

(* a stored row of the same party, date and amount as the entry checked *)
Matches(r) ==
  /\ r.party_id = last.party
  /\ r.date = last.entry.date
  /\ r.amount = last.entry.amount

StoredKind(r) ==
  IF r.type = "expense" /\ r.expense_category = "party_payment" THEN "payment"
  ELSE r.type

(* the row was created within the trailing day *)
InWindow(r) == now - r.created_at <= Window

Rows == { transactions[k] : k \in DOMAIN transactions }

(* C6: a check of an entry that was posted before (same party, date,       *)
(* amount, kind and bill number) reports a duplicate while the stored row  *)
(* is at most a day old, and reports none when every stored row of that    *)
(* party, date and amount is older than a day.                             *)
C6_Window ==
  Checked =>
    /\ (\E r \in Rows : /\ Matches(r)
                        /\ StoredKind(r) = last.entry.type
                        /\ r.bill_number = last.entry.billNumber
                        /\ InWindow(r))
         => last.isDup
    /\ (\A r \in Rows : Matches(r) => ~InWindow(r)) => ~last.isDup

(* the entry posted before is checked again after more than a day and is   *)
(* not reported                                                            *)
C6_Witness ==
  /\ Checked
  /\ ~last.isDup
  /\ \E r \in Rows : /\ Matches(r)
                     /\ StoredKind(r) = last.entry.type
                     /\ r.bill_number = last.entry.billNumber
                     /\ ~InWindow(r)

(* C7: a check reports a duplicate only if a row of the same kind with the *)
(* same party, date and amount is stored.                                  *)
C7_SameKind ==
  (Checked /\ last.isDup) =>
    \E r \in Rows : Matches(r) /\ StoredKind(r) = last.entry.type

(* C8: a Bill is reported against a stored Bill of the same party, date    *)
(* and amount only if the two bill numbers are equal or both absent (no    *)
(* Payment row of that party, date and amount being stored).               *)
C8_BillNumber ==
  (/\ Checked
   /\ last.isDup
   /\ last.entry.type = "bill"
   /\ \A r \in Rows : Matches(r) => StoredKind(r) # "payment") =>
    \E r \in Rows : /\ Matches(r)
                    /\ StoredKind(r) = "bill"
                    /\ r.bill_number = last.entry.billNumber

(* a call is between its BEGIN and its COMMIT or ROLLBACK *)
Applying(t) ==
  task[t].pc \in {"pb_check", "pb_insert", "pb_recalc", "pb_commit", "hs_next", "hs_commit"}

(* C9: at most one apply call is between its BEGIN and its COMMIT or       *)
(* ROLLBACK, and while one is, the in-flight flag of its page stays set:   *)
(* a second submission does not reset it.                                  *)
C9_NoInterleave ==
  /\ Cardinality({ t \in Tasks : Applying(t) }) <= 1
  /\ \A t \in Tasks :
       Applying(t) =>
         /\ (task[t].op = "processBulkEntries" => isSaving)
         /\ (task[t].op = "handleSubmit" => isProcessing)

(* C10: a submission whose batch the validator rejects changes nothing in  *)
(* the store and starts no call; a handleSubmit that runs has a batch      *)
(* without validation errors.                                              *)
C10_Gate ==
  /\ last.ev = "validation_failed" =>
       /\ Len(validateEntries(last.batch)) > 0
       /\ parties = last.pre.p
       /\ transactions = last.pre.t
       /\ AllIdle
  /\ \A t \in Tasks :
       task[t].op = "handleSubmit" => Len(validateEntries(task[t].batch)) = 0

(* handleSubmit has turned down a batch that holds a valid entry next to   *)
(* an invalid one                                                          *)
C10_Witness ==
  /\ last.ev = "validation_failed"
  /\ last.op = "handleSubmit"
  /\ \E k \in DOMAIN last.batch : EntryValid(last.batch[k])
  /\ \E k \in DOMAIN last.batch : ~EntryValid(last.batch[k])

----------------------------------------------------------------------------
(* C11: force-post.  A submission of the unchanged batch that follows      *)
(* Process Anyway is not halted by the warnings that were just dismissed.  *)
C11_ForcePost ==
  (last.ev = "duplicates" /\ Len(last.forced) > 0) => duplicates # last.forced

----------------------------------------------------------------------------
(* C12: processBulkEntries skips a flagged entry without failing.  The     *)
(* step that skips a flagged entry leaves both tables as they were and the *)
(* call goes on inside its transaction; at the commit the rows inserted    *)
(* are one for every Bill/Payment entry of the batch that was not flagged. *)
PostedEntries(batch, skipped) ==
  { k \in DOMAIN batch : k \notin skipped /\ batch[k].type \in {"bill", "payment"} }

C12_SkipNotFatal ==
  /\ (last.ev = "skip" /\ last.op = "processBulkEntries" /\ last.isDup) =>
        /\ CurrentDb = last.pre
        /\ inTransaction
        /\ \E t \in Tasks : /\ task[t].op = "processBulkEntries"
                             /\ task[t].pc \in {"pb_check", "pb_recalc"}
  /\ (last.ev = "commit" /\ last.op = "processBulkEntries") =>
        LET posted == PostedEntries(last.batch, last.skipped)
        IN  /\ Cardinality(last.inserted) = Cardinality(posted)
            /\ last.inserted \subseteq RowIds(transactions)
            /\ last.inserted \cap RowIds(last.pre.t) = {}
            /\ Len(transactions) = Len(last.pre.t) + Cardinality(posted)

(* a committed batch of two entries, one skipped and one inserted *)
C12_Witness ==
  /\ last.ev = "commit" /\ last.op = "processBulkEntries"
  /\ Len(last.batch) = 2
  /\ Cardinality(last.skipped) = 1
  /\ Cardinality(last.inserted) = 1

----------------------------------------------------------------------------
(* C13: every accepted entry becomes one transaction.  At the commit of an *)
(* apply call, every entry of the batch that was not skipped as a          *)
(* duplicate has one row inserted by the call, with the entry's date and   *)
(* amount and the resolved party, and every party's current_balance has    *)
(* changed by +amount per Bill, -amount per Payment and +amount per        *)
(* credit Sale posted to it.                                               *)
EntryDelta(e) ==
  IF e.type = "bill" THEN e.amount
  ELSE IF e.type = "payment" THEN 0 - e.amount
  ELSE IF e.type = "sale" /\ e.payment_mode = "credit" THEN e.amount
  ELSE 0

RECURSIVE EntrySum(_, _)
EntrySum(batch, S) ==
  IF S = {} THEN 0
  ELSE LET k == CHOOSE x \in S : TRUE
       IN  EntryDelta(batch[k]) + EntrySum(batch, S \ {k})

Resolved(ev, k) ==
  IF ev.op = "processBulkEntries" THEN ev.party
  ELSE IF ev.batch[k].party_name = NULL THEN NULL
  ELSE FindPartyByName(CurrentDb, ev.batch[k].party_name)

BalanceBefore(ev, p) ==
  IF p \in DOMAIN ev.pre.p THEN ev.pre.p[p].current_balance ELSE 0

C13_OneRowEach ==
  (last.ev = "commit" /\ last.op \in ApplyOps) =>
    LET accepted == { k \in DOMAIN last.batch : k \notin last.skipped }
    IN  /\ Cardinality(last.inserted) = Cardinality(accepted)
        /\ \A k \in accepted : \E j \in DOMAIN transactions :
              /\ transactions[j].id \in last.inserted
              /\ transactions[j].id \notin RowIds(last.pre.t)
              /\ transactions[j].date = last.batch[k].date
              /\ transactions[j].amount = last.batch[k].amount
              /\ transactions[j].party_id = Resolved(last, k)
        /\ \A p \in DOMAIN parties :
              parties[p].current_balance - BalanceBefore(last, p) =
                EntrySum(last.batch, { k \in accepted : Resolved(last, k) = p })

----------------------------------------------------------------------------
(* the case folding of the party names used here *)
Lower(name) == IF name = "Maa" THEN "maa" ELSE name

(* C14: resolve-or-create with case-insensitive matching.  At the commit   *)
(* of handleSubmit every entry with a party name has its row linked to a   *)
(* party of that name ignoring case, and a party was created only for a    *)
(* name that, ignoring case, no party had before the call.                 *)
C14_ResolveOrCreate ==
  (last.ev = "commit" /\ last.op = "handleSubmit") =>
    /\ \A k \in DOMAIN last.batch :
          last.batch[k].party_name # NULL =>
            \E j \in DOMAIN transactions :
              /\ transactions[j].id = last.batch[k].id
              /\ transactions[j].party_id \in DOMAIN parties
              /\ Lower(parties[transactions[j].party_id].name) =
                   Lower(last.batch[k].party_name)
    /\ \A p \in last.created : \A q \in DOMAIN last.pre.p :
          Lower(last.pre.p[q].name) # Lower(parties[p].name)

(* C15: in every committed store no two parties have names that are equal  *)
(* ignoring case.                                                          *)
C15_UniqueNames ==
  ~inTransaction =>
    \A p, q \in DOMAIN parties :
      p # q => Lower(parties[p].name) # Lower(parties[q].name)

----------------------------------------------------------------------------
(* Properties of the parser, read off the page after a text was parsed.    *)

(* the lines of a text that hold a character other than a blank *)
NonBlankLines(text) ==
  SelectSeq(splitOn(text, NewLine), LAMBDA line : \E k \in DOMAIN line : line[k] # " ")

(* two results that differ at most in the id of the entry *)
SameButId(a, b) ==
  /\ a.error = b.error
  /\ IF a.error THEN a = b ELSE [a EXCEPT !.id = NULL] = [b EXCEPT !.id = NULL]

(* the result of a line that is parsed as a text of its own *)
Alone(line, selectedDate) == parseEntries(line, selectedDate, 0).entries

(* C16: parseEntries returns one result for every line that is not blank,  *)
(* in the order of the lines; the i-th result is the result the i-th such  *)
(* line gives on its own, whatever the other lines are and whether they    *)
(* fail or not.                                                            *)
C16_OnePerLine ==
  last.ev = "parse" =>
    LET lines == NonBlankLines(last.text)
    IN  /\ Len(parsedEntries) = Len(lines)
        /\ \A i \in DOMAIN lines :
             /\ Len(Alone(lines[i], last.date)) = 1
             /\ SameButId(parsedEntries[i], Alone(lines[i], last.date)[1])

(* a line that fails is followed by a line that gives an entry *)
C16_Witness ==
  /\ last.ev = "parse"
  /\ Len(parsedEntries) = 2
  /\ parsedEntries[1].error
  /\ ~parsedEntries[2].error

(* C17: every entry that parseEntries returns has an amount greater than   *)
(* 0; a line with a zero or negative amount gives an error.                *)
C17_PositiveAmounts ==
  last.ev = "parse" =>
    \A i \in DOMAIN parsedEntries :
      ~parsedEntries[i].error => parsedEntries[i].amount > 0

(* the inline date tokens of a line, (date: D/M/YY) and (D/M/YY) *)
DateTokens(line) ==
  { m \in { DatedPatternAt(line, i) : i \in DOMAIN line } \cup
          { BarePatternAt(line, i) : i \in DOMAIN line } : m.found }

TokenDay(m) == NumberOf(splitOn(m.group, "/")[1])
TokenMonth(m) == NumberOf(splitOn(m.group, "/")[2])
TokenYear(m) == NumberOf(splitOn(m.group, "/")[3])
InRange(m) == TokenDay(m) \in 1..31 /\ TokenMonth(m) \in 1..12

(* the results next to the lines they come from *)
ResultLines == NonBlankLines(last.text)
Results == DOMAIN ResultLines \cap DOMAIN parsedEntries

(* C18: a line with an inline date token whose day is outside 1..31 or     *)
(* whose month is outside 1..12 gives an error, never an entry.            *)
C18_BadDateIsError ==
  last.ev = "parse" =>
    \A i \in Results :
      (\E m \in DateTokens(trim(ResultLines[i])) : ~InRange(m)) =>
        parsedEntries[i].error

(* 20YY-MM-DD for the date of a token *)
TokenDate(m) ==
  <<"2", "0">> \o padStart2(TokenYear(m)) \o <<"-">> \o padStart2(TokenMonth(m)) \o
  <<"-">> \o padStart2(TokenDay(m))

Contains(s, sub) == \E i \in DOMAIN s : HasAt(s, i, sub)

(* C19: the entry of a line with one inline date token D/M/YY, D in 1..31, *)
(* M in 1..12, YY in 00..99, is dated 20YY-MM-DD and holds the token in no *)
(* party name, bill number or description; the entry of a line without a   *)
(* token is dated with the default date.                                   *)
C19_InlineDate ==
  last.ev = "parse" =>
    \A i \in Results :
      LET tokens == DateTokens(trim(ResultLines[i]))
          r == parsedEntries[i]
      IN  ~r.error =>
            /\ tokens = {} => r.date = last.date
            /\ \A m \in tokens :
                 (Cardinality(tokens) = 1 /\ InRange(m)) =>
                   /\ r.date = TokenDate(m)
                   /\ ~Contains(r.party_name, m.group)
                   /\ ~Contains(r.billNumber, m.group)
                   /\ ~Contains(r.description, m.group)

(* the rules (a) to (f) in their order; the first that applies *)
RuleOf(parts) ==
  IF isSaleMarker(parts[1]) THEN "a"
  ELSE IF Len(parts) > 2 /\ toLowerCase(parts[2]) \in {<<"s", "a", "l">>, <<"a", "d", "v">>}
  THEN "b"
  ELSE IF Len(parts) >= 3 /\ toLowerCase(parts[3]) = <<"p", "a", "r", "t", "y">> THEN "c"
  ELSE IF Len(parts) >= 2 /\ parts[1] \in STANDARD_EXPENSES THEN "d"
  ELSE IF \E k \in DOMAIN parts : ~parseFloat(parts[k]).nan THEN "e"
  ELSE "f"

OfRule(rule, r) ==
  CASE rule = "a" -> r.type = "sale"
    [] rule = "b" -> r.type = "expense" /\ r.staff_name # NoText
    [] rule = "c" -> r.type = "payment"
    [] rule = "d" -> r.type = "expense" /\ r.staff_name = NoText
    [] rule = "e" -> r.type = "bill"
    [] rule = "f" -> r.type = "expense" /\ r.staff_name = NoText

(* the parts of a line once its inline date is cut out *)
PartsOf(line) == splitSpaces(inlineDate(trim(line), last.date).lineWithoutDate)

(* C20: the kind of the entry of a line is the kind of the first of the    *)
(* rules (a) to (f) that applies to its parts; a line whose first part is  *)
(* a standard expense and that is no sale, staff expense or payment gives  *)
(* an expense, never a bill.                                               *)
C20_FirstMatchWins ==
  last.ev = "parse" =>
    \A i \in Results :
      LET parts == PartsOf(ResultLines[i])
          r == parsedEntries[i]
      IN  ~r.error => OfRule(RuleOf(parts), r)

(* a line that starts with GP and holds an amount became an expense, next  *)
(* to a line that became a bill                                            *)
C20_Witness ==
  /\ last.ev = "parse"
  /\ \E i \in Results :
       /\ RuleOf(PartsOf(ResultLines[i])) = "d"
       /\ hasAmount(PartsOf(ResultLines[i]))
       /\ ~parsedEntries[i].error /\ parsedEntries[i].type = "expense"
  /\ \E i \in Results :
       /\ RuleOf(PartsOf(ResultLines[i])) = "e"
       /\ ~parsedEntries[i].error /\ parsedEntries[i].type = "bill"

(* the text without a leading ( and without a trailing ) *)
WithoutEnclosing(text) ==
  LET from == IF text # <<>> /\ text[1] = "(" THEN 2 ELSE 1
      to == IF Len(text) >= from /\ text[Len(text)] = ")" THEN Len(text) - 1 ELSE Len(text)
  IN  SubSeq(text, from, to)

(* the lines without an inline date whose first part is digits and a dot   *)
(* and whose second part is a number                                       *)
SaleLines ==
  { i \in Results :
      LET parts == splitSpaces(trim(ResultLines[i]))
      IN  /\ DateTokens(trim(ResultLines[i])) = {}
          /\ isSaleMarker(parts[1])
          /\ Len(parts) >= 2 /\ ~parseFloat(parts[2]).nan }

(* C21: a line whose first part is digits and a dot gives a sale whose     *)
(* amount is the second part, dated with the default date when the line    *)
(* has no inline date; its mode is cash without a third part, digital when *)
(* the third part is net in any case, and credit otherwise, with the rest  *)
(* of the line without its enclosing parentheses as the party name.        *)
C21_SaleMode ==
  last.ev = "parse" =>
    \A i \in SaleLines :
      LET parts == splitSpaces(trim(ResultLines[i]))
          r == parsedEntries[i]
          net == Len(parts) > 2 /\ toLowerCase(parts[3]) = <<"n", "e", "t">>
      IN  /\ ~r.error /\ r.type = "sale"
          /\ r.amount = parseFloat(parts[2]).value
          /\ r.date = last.date
          /\ Len(parts) = 2 => r.payment_mode = "cash"
          /\ net => r.payment_mode = "digital"
          /\ (Len(parts) > 2 /\ ~net) =>
               /\ r.payment_mode = "credit"
               /\ r.party_name = WithoutEnclosing(join(SubSeq(parts, 3, Len(parts))))

(* a digital sale written NET was parsed *)
C21_Witness ==
  /\ last.ev = "parse"
  /\ \E i \in SaleLines :
       /\ Len(splitSpaces(trim(ResultLines[i]))) > 2
       /\ splitSpaces(trim(ResultLines[i]))[3] = <<"N", "E", "T">>
       /\ parsedEntries[i].payment_mode = "digital"

(* the lines that go to the bill rule and hold an amount: the position of  *)
(* the first part after the name that is a number and holds no slash       *)
AmountAt(parts) ==
  LET fit == { k \in 2..Len(parts) :
                 ~parseFloat(parts[k]).nan /\ \A c \in DOMAIN parts[k] : parts[k][c] # "/" }
  IN  IF fit = {} THEN 0 ELSE CHOOSE k \in fit : \A j \in fit : k <= j

BillLines ==
  { i \in Results :
      /\ Len(PartsOf(ResultLines[i])) >= 2
      /\ RuleOf(PartsOf(ResultLines[i])) = "e"
      /\ AmountAt(PartsOf(ResultLines[i])) # 0 }

IsWord(part, word) == toUpperCase(part) = word

(* C22: a line that goes to the bill rule gives a bill whose party name is *)
(* the first part, whose amount is the first later part that is a number   *)
(* and holds no slash, whose bill number is the parts in between joined by *)
(* blanks and without parentheses (absent when there are none), whose      *)
(* description is GR and the part after GR exactly when GR and a part      *)
(* after it follow the amount, and whose hasGST is set exactly when GST    *)
(* follows the amount.                                                     *)
C22_BillFields ==
  last.ev = "parse" =>
    \A i \in BillLines :
      LET parts == PartsOf(ResultLines[i])
          at == AmountAt(parts)
          between == SubSeq(parts, 2, at - 1)
          after == SubSeq(parts, at + 1, Len(parts))
          grs == { k \in DOMAIN after : IsWord(after[k], <<"G", "R">>) /\ k < Len(after) }
          r == parsedEntries[i]
      IN  /\ ~r.error /\ r.type = "bill"
          /\ r.party_name = parts[1]
          /\ r.amount = parseFloat(parts[at]).value
          /\ r.billNumber =
               IF between = <<>> THEN NoText
               ELSE SelectSeq(join(between), LAMBDA c : c \notin {"(", ")"})
          /\ grs = {} => r.description = NoText
          /\ grs # {} => \E k \in grs : r.description = <<"G", "R", " ">> \o after[k + 1]
          /\ r.hasGST = 1 <=> \E k \in DOMAIN after : IsWord(after[k], <<"G", "S", "T">>)

(* a bill with a bill number in parentheses, with gst and with a GR that   *)
(* nothing follows was parsed                                              *)
C22_Witness ==
  /\ last.ev = "parse"
  /\ \E i \in BillLines :
       /\ parsedEntries[i].billNumber = <<"S", "V", "2">>
       /\ parsedEntries[i].hasGST = 1
       /\ parsedEntries[i].description = NoText

(* C23: a line of at least two parts that is no sale, staff expense, party *)
(* payment or standard expense and in which no part is a number gives an   *)
(* expense of category petty, described by its first part, whose amount is *)
(* its second part.                                                        *)
C23_RandomExpense ==
  last.ev = "parse" =>
    \A i \in Results :
      LET parts == PartsOf(ResultLines[i])
          r == parsedEntries[i]
      IN  (Len(parts) >= 2 /\ RuleOf(parts) = "f") =>
            /\ ~r.error /\ r.type = "expense"
            /\ r.expense_category = "petty"
            /\ r.description = toLowerCase(parts[1])
            /\ r.amount = parseFloat(parts[2]).value

----------------------------------------------------------------------------
(* C24: a lookup, insert or update of the store that fails while           *)
(* processBulkEntries runs, the lookup of the duplicate check included,    *)
(* ends the call with a rollback: the store is as it was when the call     *)
(* began and the transaction is closed.                                    *)
C24_StoreFailureFatal ==
  /\ (last.op = "processBulkEntries" /\ last.ev = "rollback") =>
       CurrentDb = last.pre /\ ~inTransaction
  /\ (last.op = "processBulkEntries" /\ last.ev = "dupcheck" /\ last.fault) =>
       /\ ~inTransaction
       /\ \A t \in Tasks : task[t].op # "processBulkEntries"

----------------------------------------------------------------------------
(* the store processBulkEntries leaves when no statement fails: the loop   *)
(* over the sorted entries from entry i on, with n ids drawn               *)
RECURSIVE BulkLoop(_, _, _, _, _, _)
BulkLoop(db, pid, sorted, i, n, ts) ==
  IF i > Len(sorted) THEN db
  ELSE LET e == sorted[i]
           isDup == checkDuplicateTransaction(db.t, pid, e.date, e.amount, e.type,
                                              e.billNumber, ts)
       IN  IF Posts(isDup, e)
           THEN BulkLoop(AdjustBalance(InsertTransaction(db, BulkRow(e, generateId(n), pid, ts)),
                                       pid, BulkDelta(e), ts),
                         pid, sorted, i + 1, n + 1, ts)
           ELSE BulkLoop(db, pid, sorted, i + 1, n, ts)

BulkOutcome(db, pid, batch, ts) ==
  recalculatePartyBalance(BulkLoop(db, pid, SortByDate(batch), 1, 0, ts), pid, ts).db

(* the orders a batch can be given in *)
Orders(batch) ==
  { [i \in DOMAIN batch |-> batch[p[i]]] :
      p \in { q \in [DOMAIN batch -> DOMAIN batch] :
                \A i, j \in DOMAIN batch : q[i] = q[j] => i = j } }

(* two stores with the same balances and the same rows, ids aside *)
WithoutId(t) == { [t[i] EXCEPT !.id = NULL] : i \in DOMAIN t }
SameLedger(a, b) ==
  /\ a.p = b.p
  /\ Len(a.t) = Len(b.t)
  /\ WithoutId(a.t) = WithoutId(b.t)

(* C25: the store processBulkEntries commits is the store it would have    *)
(* left had the batch been given in any other order: the same rows with    *)
(* the same running balances and the same balance of the party.            *)
C25_OrderIndependent ==
  (last.ev = "commit" /\ last.op = "processBulkEntries") =>
    (SameLedger(CurrentDb, BulkOutcome(last.pre, last.party, last.batch, now)) =>
       \A b \in Orders(last.batch) :
         SameLedger(CurrentDb, BulkOutcome(last.pre, last.party, b, now)))

(* the positions of a call at which it issues BEGIN, and those between its *)
(* BEGIN and its COMMIT or ROLLBACK                                        *)
BeginPcs == {"pb_begin", "hs_begin", "at_begin", "dt_begin"}
OpenPcs ==
  {"pb_check", "pb_insert", "pb_recalc", "pb_commit", "hs_next", "hs_commit",
   "at_check", "at_insert", "at_recalc", "at_commit", "dt_recalc", "dt_commit"}
Ends == {"commit", "rollback"}
Open(t) == task[t].pc \in OpenPcs

(* a COMMIT or ROLLBACK is issued by a call that has issued BEGIN and has  *)
(* not ended, and ends it; a call leaves its unit of work in no other way  *)
EndsOnce ==
  [][\A t \in OneFrame :
       /\ last'.ev \in Ends =>
            /\ task[t].pc \in BeginPcs \cup OpenPcs
            /\ task'[t].pc \notin BeginPcs \cup OpenPcs
            /\ ~inTransaction'
       /\ (Open(t) /\ ~Open(t)') => last'.ev \in Ends]_vars

(* C26: a call of processBulkEntries, addTransaction, deleteTransaction or *)
(* handleSubmit whose BEGIN has opened a transaction issues exactly one    *)
(* COMMIT or ROLLBACK, and does so eventually: the transaction is open     *)
(* exactly while the call is between its BEGIN and its end, the call       *)
(* leaves that stretch only by a COMMIT or a ROLLBACK, which closes the    *)
(* transaction, and it does leave it.                                      *)
C26_TerminatesOnce ==
  /\ [](\A t \in OneFrame : Open(t) <=> inTransaction)
  /\ EndsOnce
  /\ \A t \in OneFrame : Open(t) ~> (~Open(t) /\ ~inTransaction)

(* a bulk import has rolled back after it had inserted a row *)
C26_Witness ==
  /\ last.ev = "rollback" /\ last.op = "processBulkEntries"
  /\ last.inserted # {}
  /\ ~inTransaction

(* the entries of a batch that are a Bill or a Payment and match no row    *)
(* of the store db                                                         *)
FreshEntries(batch, db, pid, ts) ==
  { i \in DOMAIN batch :
      /\ batch[i].type \in {"bill", "payment"}
      /\ ~checkDuplicateTransaction(db.t, pid, batch[i].date, batch[i].amount,
                                    batch[i].type, batch[i].billNumber, ts) }

(* C27: a bulk import that commits, every statement of it having          *)
(* succeeded, has inserted as many rows as the batch has Bill or Payment   *)
(* entries that match no transaction of the store as it was when the call  *)
(* began; an entry given twice in the batch is posted twice.               *)
C27_PostsEveryFresh ==
  (/\ last.ev = "commit" /\ last.op = "processBulkEntries"
   /\ SameLedger(CurrentDb, BulkOutcome(last.pre, last.party, last.batch, now))) =>
    Cardinality(last.inserted) =
      Cardinality(FreshEntries(last.batch, last.pre, last.party, now))

(* the rows of table t whose id is in ids *)
Present(t, ids) == { k \in DOMAIN t : t[k].id \in ids }

(* the running balances and the balance of party pid are the fold over    *)
(* its ledger in date order                                                *)
Folded(db, pid) == recalculatePartyBalance(db, pid, now).db = db

(* C28: a bulk delete of a non-empty selection of the party's rows ends    *)
(* with COMMIT, none of the selected rows left, and the balances of the    *)
(* party folded over the rows that are left; it does not end with the      *)
(* selected rows all in place.                                             *)
C28_BulkDeleteCompletes ==
  (last.op = "handleBulkDeleteTransactions" /\ last.ev \in Ends) =>
    /\ last.ev = "commit"
    /\ Present(transactions, last.selected) = {}
    /\ Folded(CurrentDb, last.party)

(* C29: when addTransaction has committed and returns its id, the store    *)
(* holds a transaction of that id posted against the party of the call,    *)
(* for a bill, a payment and a sale.                                       *)
C29_ReturnedIdStored ==
  (last.op = "addTransaction" /\ last.ev = "commit") =>
    \E k \in DOMAIN transactions :
      /\ transactions[k].id = last.txid
      /\ transactions[k].party_id = last.party

(* a row with its running balance left out *)
WithoutRunning(r) == [r EXCEPT !.running_balance = None]

(* C30: a step of recalculatePartyBalance(p) inserts and deletes no row,   *)
(* changes of a row nothing but the running balance, and that only of      *)
(* Bill and Payment rows of p; it changes of a party nothing but the       *)
(* balance, and that only of p.                                            *)
C30_RecalcFrame ==
  [][last'.ev = "recalc" =>
       /\ DOMAIN transactions' = DOMAIN transactions
       /\ \A k \in DOMAIN transactions :
            /\ WithoutRunning(transactions'[k]) = WithoutRunning(transactions[k])
            /\ transactions'[k].running_balance # transactions[k].running_balance =>
                 /\ transactions[k].party_id = last'.party
                 /\ IsBill(transactions[k]) \/ IsPayment(transactions[k])
       /\ DOMAIN parties' = DOMAIN parties
       /\ \A q \in DOMAIN parties :
            /\ parties'[q].name = parties[q].name
            /\ q # last'.party => parties'[q] = parties[q]]_vars

(* a party has been recalculated while another party has a Bill or a       *)
(* Payment too                                                             *)
C30_Witness ==
  /\ last.ev = "recalc"
  /\ \E k \in DOMAIN transactions :
       /\ transactions[k].party_id = last.party
       /\ transactions[k].running_balance # None
  /\ \E k \in DOMAIN transactions :
       /\ transactions[k].party_id \notin {last.party, NULL}
       /\ IsBill(transactions[k]) \/ IsPayment(transactions[k])


====
